---- MODULE Spec2Model ----
(***************************************************************************)
(* Vibe Coding Simulator: the simulation core.                             *)
(*                                                                         *)
(* GameState (contexts/GameContext.tsx) is transformed by the commands     *)
(* advanceTime, assignProjectToGpu, purchaseItem, handleYoloAttempt,       *)
(* handleInterventionAttempt and handleFeedMessageAction; each command is  *)
(* one setGameState updater and is modelled as one action.  The host of    *)
(* the game state is modelled with it: the catalog loader (useCsvLoader),  *)
(* the timers of the game loop (useGameLoop) and the queue of updaters     *)
(* setGameState feeds.                                                     *)
(*                                                                         *)
(* Numbers.  Multipliers are integers in units of 1/MScale, progress is an *)
(* integer in units of 1/PUnit, rates and random draws are integers in     *)
(* units of 1/RUnit.  With integer catalog attributes and baseline times   *)
(* dividing BaselineLcm every quantity the code computes is represented    *)
(* exactly.  Rates of the job catalog are given in hundredths.             *)
(***************************************************************************)
EXTENDS Integers, Sequences, FiniteSets, TLC

\* ------------------------------------------------------------------------
\* Bounds of the model
\* ------------------------------------------------------------------------
MaxBlocks == 8         \* advanceTime is explored in the first MaxBlocks time blocks
LowHealth == 2         \* health of the low-health initial state
MaxHealthDrop == 1     \* interventions are explored from health above 100 - MaxHealthDrop
MaxFeedDay == 3        \* the feed is explored over the days 1..MaxFeedDay + 1
MaxAttribute == 26     \* the largest attribute value of a shop item
MaxTicks == 3          \* block advances asked of advanceTime beside the game loop
MaxCallBlocks == 2     \* the largest blocks of an advanceTime(blocks) call
MaxTimeUnits == 3      \* the largest timeUnits given to updateProjectProgress
MaxPending == 3        \* updaters given to setGameState and not yet applied
MaxTimers == 6         \* intervals the window hands out

\* ------------------------------------------------------------------------
\* Units
\* ------------------------------------------------------------------------
MScale == 100 * 100 * 100     \* a multiplier is a product of three effects in hundredths
BaselineLcm == 12             \* every Baseline_Time of the catalog divides it
PUnit == MScale * BaselineLcm
RUnit == 100 * MScale         \* a catalog rate (hundredths) times a multiplier

\* ------------------------------------------------------------------------
\* Program constants
\* ------------------------------------------------------------------------
MAX_FEED_MESSAGES == 5
MAX_ARCHIVED_FEED_MESSAGES == 25
TIME_BLOCKS_PER_DAY == 8
PROJECT_ERROR_THRESHOLDS == <<25, 50, 75>>
MESSAGE_COOLDOWN_DAYS == 3
dailyHealthCost == 5
reputationPenalty == 10
healthPenalty == 2
healthCost == 1
InitialCredits == 1000
InitialHealth == 100
InitialGpus == 4
SPEEDS == [slow |-> 10000, medium |-> 5000, fast |-> 2000]
PROGRESS_STEPS == 100

\* ------------------------------------------------------------------------
\* Generic helpers (JavaScript array and number idioms)
\* ------------------------------------------------------------------------
Min(a, b) == IF a < b THEN a ELSE b
Max(a, b) == IF a > b THEN a ELSE b

\* x || d for numbers: 0 is falsy
OrDefault(x, d) == IF x = 0 THEN d ELSE x

Range(s) == {s[i] : i \in 1..Len(s)}

\* arr.slice(0, n)
Slice(s, n) == SubSeq(s, 1, Min(n, Len(s)))

\* arr.slice(0, -1)
DropLast(s) == IF Len(s) = 0 THEN s ELSE SubSeq(s, 1, Len(s) - 1)

\* The value Math.random() returns, in units of 1/RUnit: the smallest and
\* the largest value of [0,1).  Every rate the code compares a draw with is
\* a multiple of 1/RUnit, so draw 0 succeeds iff rate > 0 and draw RUnit-1
\* succeeds iff rate >= 1: the two draws produce every outcome of a roll.
RandomDraws == {0, RUnit - 1}

ThresholdUnits(t) == (t * PUnit) \div 100

\* Marker of a CSV column that is absent from a record (JavaScript undefined)
Undefined == -1

\* ------------------------------------------------------------------------
\* logic/resourceManager.ts: modifiers from owned equipment
\* ------------------------------------------------------------------------

\* arr.find(pred) over a catalog keyed by an id field; <<>> when not found,
\* <<record>> when found
FindById(catalog, field, id) ==
  LET hits == SelectSeq(catalog, LAMBDA r : r[field] = id)
  IN IF Len(hits) = 0 THEN <<>> ELSE <<hits[1]>>

\* owned.map(id => catalog.find(...)).filter(Boolean)
RECURSIVE OwnedItems(_, _, _)
OwnedItems(owned, catalog, field) ==
  IF Len(owned) = 0 THEN <<>>
  ELSE FindById(catalog, field, owned[1]) \o OwnedItems(Tail(owned), catalog, field)

\* items.reduce((best, current) => best[attr] > current[attr] ? best : current, items[0])
RECURSIVE ReduceBest(_, _, _)
ReduceBest(best, items, attr) ==
  IF Len(items) = 0 THEN best
  ELSE ReduceBest(IF best[attr] > items[1][attr] THEN best ELSE items[1],
                  Tail(items), attr)

activeHardwareOf(gameState) ==
  LET ownedHardwareItems == OwnedItems(gameState.ownedHardware, gameState.hardware, "Hardware_ID")
  IN IF Len(ownedHardwareItems) = 0 THEN <<>>
     ELSE <<ReduceBest(ownedHardwareItems[1], ownedHardwareItems, "Processing_Power")>>

activeAiModelOf(gameState) ==
  LET ownedAiModelItems == OwnedItems(gameState.ownedAiModels, gameState.aiModels, "Model_ID")
  IN IF Len(ownedAiModelItems) = 0 THEN <<>>
     ELSE <<ReduceBest(ownedAiModelItems[1], ownedAiModelItems, "Accuracy")>>

\* Each effect is in hundredths (100 = 1.0); the three products are in
\* units of 1/MScale.
calculateCombinedModifiers(gameState) ==
  LET hw == activeHardwareOf(gameState)
      ai == activeAiModelOf(gameState)
      powerEffect == IF Len(hw) = 0 THEN 100 ELSE 100 + 8 * hw[1].Processing_Power
      memoryEffect == IF Len(hw) = 0 THEN 100 ELSE Max(60, 100 - 8 * hw[1].Memory)
      efficiencyBonus == IF Len(hw) = 0 THEN 0 ELSE 4 * hw[1].Energy_Efficiency
      efficiencySpeedEffect == 100 + efficiencyBonus
      efficiencyErrorEffect == 100 - efficiencyBonus
      accuracyEffect == IF Len(ai) = 0 THEN 100 ELSE Max(60, 100 - 12 * ai[1].Accuracy)
      speedEffect == IF Len(ai) = 0 THEN 100 ELSE 100 + 12 * ai[1].Inference_Speed
      yoloEffect == IF Len(ai) = 0 THEN 100 ELSE 100 + 25 * ai[1].Accuracy
  IN [speedMultiplier |-> powerEffect * efficiencySpeedEffect * speedEffect,
      errorMultiplier |-> memoryEffect * efficiencyErrorEffect * accuracyEffect,
      yoloMultiplier  |-> yoloEffect * 10000]

\* ------------------------------------------------------------------------
\* logic/projectLogic.ts: the job lifecycle
\* ------------------------------------------------------------------------

\* Math.random() < clamp(baseErrorRate * errorMultiplier, 0, 1) for draw u
checkErrorProbability(projectState, modifiers, u) ==
  LET baseErrorRate == projectState.baseErrorRate
      errorMultiplier == OrDefault(modifiers.errorMultiplier, MScale)
      effectiveErrorRate == baseErrorRate * errorMultiplier
      clampedErrorRate == Max(0, Min(RUnit, effectiveErrorRate))
  IN u < clampedErrorRate

\* ThresholdLoop without the test previousProgress < threshold: a threshold
\* is rolled whenever progress is at or above it
RECURSIVE ThresholdLoop_EveryTick(_, _, _, _, _)
ThresholdLoop_EveryTick(i, updatedProj, previousProgress, modifiers, draws) ==
  IF i > Len(PROJECT_ERROR_THRESHOLDS) THEN updatedProj
  ELSE LET threshold == PROJECT_ERROR_THRESHOLDS[i]
       IN IF updatedProj.progress >= ThresholdUnits(threshold)
          THEN IF checkErrorProbability(updatedProj, modifiers, draws[i])
               THEN [updatedProj EXCEPT
                       !.status = "error",
                       !.errors = Append(@, [type |-> "standard", threshold |-> threshold])]
               ELSE ThresholdLoop_EveryTick(i + 1, updatedProj, previousProgress,
                                            modifiers, draws)
          ELSE ThresholdLoop_EveryTick(i + 1, updatedProj, previousProgress,
                                       modifiers, draws)

\* ThresholdLoop without the break: the loop goes on to the next threshold
\* after it has raised an error
RECURSIVE ThresholdLoop_NoBreak(_, _, _, _, _)
ThresholdLoop_NoBreak(i, updatedProj, previousProgress, modifiers, draws) ==
  IF i > Len(PROJECT_ERROR_THRESHOLDS) THEN updatedProj
  ELSE LET threshold == PROJECT_ERROR_THRESHOLDS[i]
       IN IF previousProgress < ThresholdUnits(threshold)
             /\ updatedProj.progress >= ThresholdUnits(threshold)
             /\ checkErrorProbability(updatedProj, modifiers, draws[i])
          THEN ThresholdLoop_NoBreak(
                 i + 1,
                 [updatedProj EXCEPT
                    !.status = "error",
                    !.errors = Append(@, [type |-> "standard", threshold |-> threshold])],
                 previousProgress, modifiers, draws)
          ELSE ThresholdLoop_NoBreak(i + 1, updatedProj, previousProgress,
                                     modifiers, draws)

\* The loop over PROJECT_ERROR_THRESHOLDS from index i on, with its break;
\* draws[i] is the value Math.random() returns if threshold i is rolled.
RECURSIVE ThresholdLoop(_, _, _, _, _)
ThresholdLoop(i, updatedProj, previousProgress, modifiers, draws) ==
  IF i > Len(PROJECT_ERROR_THRESHOLDS) THEN updatedProj
  ELSE LET threshold == PROJECT_ERROR_THRESHOLDS[i]
       IN IF previousProgress < ThresholdUnits(threshold)
             /\ updatedProj.progress >= ThresholdUnits(threshold)
          THEN IF checkErrorProbability(updatedProj, modifiers, draws[i])
               THEN [updatedProj EXCEPT
                       !.status = "error",
                       !.errors = Append(@, [type |-> "standard", threshold |-> threshold])]
               ELSE ThresholdLoop(i + 1, updatedProj, previousProgress, modifiers, draws)
          ELSE ThresholdLoop(i + 1, updatedProj, previousProgress, modifiers, draws)

\* updateProjectProgress without the final test progress >= 1
updateProjectProgress_NeverCompletes(projectState, timeUnits, modifiers, draws) ==
  LET baseTimeBlocks == OrDefault(projectState.baselineTime, 1)
      timeUnitsPerBlock == 1
      effectiveSpeedMultiplier == OrDefault(modifiers.speedMultiplier, MScale)
      progressIncrement ==
        (timeUnitsPerBlock * BaselineLcm * effectiveSpeedMultiplier) \div baseTimeBlocks
      newProgress == Min(PUnit, projectState.progress + progressIncrement)
      moved == [projectState EXCEPT
                  !.progress = newProgress,
                  !.timeRemaining = Max(0, baseTimeBlocks * (PUnit - newProgress))]
  IN ThresholdLoop(1, moved, projectState.progress, modifiers, draws)

updateProjectProgress(projectState, timeUnits, modifiers, draws) ==
  LET baseTimeBlocks == OrDefault(projectState.baselineTime, 1)
      timeUnitsPerBlock == 1
      effectiveSpeedMultiplier == OrDefault(modifiers.speedMultiplier, MScale)
      progressIncrement ==
        (timeUnitsPerBlock * BaselineLcm * effectiveSpeedMultiplier) \div baseTimeBlocks
      newProgress == Min(PUnit, projectState.progress + progressIncrement)
      moved == [projectState EXCEPT
                  !.progress = newProgress,
                  !.timeRemaining = Max(0, baseTimeBlocks * (PUnit - newProgress))]
      checked == ThresholdLoop(1, moved, projectState.progress, modifiers, draws)
  IN IF checked.progress >= PUnit
     THEN [checked EXCEPT !.status = "completed"]
     ELSE checked

\* resolveYolo whose success leaves the errors list as it was
resolveYolo_KeepsErrors(projectState, modifiers, u) ==
  LET yoloSuccessRate == projectState.yoloSuccessRate
      effectiveSuccessRate == yoloSuccessRate * OrDefault(modifiers.yoloMultiplier, MScale)
  IN IF u < effectiveSuccessRate
     THEN [projectState EXCEPT !.status = "running"]
     ELSE [projectState EXCEPT !.status = "failed"]

resolveYolo(projectState, modifiers, u) ==
  LET yoloSuccessRate == projectState.yoloSuccessRate
      effectiveSuccessRate == yoloSuccessRate * OrDefault(modifiers.yoloMultiplier, MScale)
  IN IF u < effectiveSuccessRate
     THEN [projectState EXCEPT !.status = "running", !.errors = DropLast(@)]
     ELSE [projectState EXCEPT !.status = "failed"]

\* successRate = 0.9 * ((Clarity + Specificity + Adaptability) / 3) / 5
\*             = 0.06 * (Clarity + Specificity + Adaptability)
interventionSuccessRate(promptUsed) ==
  6000000 * (promptUsed.Clarity + promptUsed.Specificity + promptUsed.Adaptability)

\* resolveIntervention whose success rate is scaled by the yoloMultiplier
resolveIntervention_YoloScaled(projectState, promptId, promptsData, modifiers, u) ==
  LET promptUsed == FindById(promptsData, "Prompt_ID", promptId)
  IN IF Len(promptUsed) = 0 THEN projectState
     ELSE IF u < (interventionSuccessRate(promptUsed[1]) \div 100)
                   * (modifiers.yoloMultiplier \div 10000)
          THEN [projectState EXCEPT !.status = "running", !.errors = DropLast(@)]
          ELSE projectState

resolveIntervention(projectState, promptId, promptsData, modifiers, u) ==
  LET promptUsed == FindById(promptsData, "Prompt_ID", promptId)
  IN IF Len(promptUsed) = 0 THEN projectState
     ELSE IF u < interventionSuccessRate(promptUsed[1])
          THEN [projectState EXCEPT !.status = "running", !.errors = DropLast(@)]
          ELSE projectState

\* ------------------------------------------------------------------------
\* logic/feedLogic.ts: the message feed
\* A state record carries, next to the fields of ExtendedGameState, the
\* module-level cooldown table recentlyShownMessages (template id -> day,
\* 0 = never shown) and msgSeq, the number of message ids handed out so far
\* (ids are unique by construction: Date.now() plus a random suffix).
\* ------------------------------------------------------------------------

NoProject == ""

canOfferProject(projectId, gameState) ==
  IF \E i \in 1..Len(gameState.activeProjects) :
        gameState.activeProjects[i].projectId = projectId
  THEN FALSE
  ELSE IF projectId \in Range(gameState.completedProjects)
  THEN FALSE
  ELSE IF \E i \in 1..Len(gameState.availableProjects) :
             gameState.availableProjects[i].Project_ID = projectId
  THEN FALSE
  ELSE TRUE

\* isMessageOnCooldown with a cooldown one day shorter
isMessageOnCooldown_OneDayShort(shown, templateId, currentDay) ==
  IF shown[templateId] = 0 THEN FALSE
  ELSE currentDay - shown[templateId] < MESSAGE_COOLDOWN_DAYS - 1

isMessageOnCooldown(shown, templateId, currentDay) ==
  IF shown[templateId] = 0 THEN FALSE
  ELSE currentDay - shown[templateId] < MESSAGE_COOLDOWN_DAYS

\* passesContextualRequirements without the test of msg_003 against hw_004
passesContextualRequirements_IgnoresHardware(template, gameState, u) ==
  IF template.Message_ID = "msg_006" /\ gameState.health # 0 /\ gameState.health > 40
  THEN FALSE
  ELSE IF template.Message_ID = "msg_010" /\ "ai_004" \in Range(gameState.ownedAiModels)
  THEN FALSE
  ELSE IF template.Action = "Accept Project" /\ template.Project_ID # NoProject
  THEN LET project == FindById(gameState.availableProjects, "Project_ID", template.Project_ID)
       IN IF Len(project) > 0 /\ project[1].Complexity > 70 /\ gameState.day >= 15
          THEN u < 90000000
          ELSE TRUE
  ELSE TRUE

\* u is the draw of the Math.random() < 0.9 boost
passesContextualRequirements(template, gameState, u) ==
  IF template.Message_ID = "msg_006" /\ gameState.health # 0 /\ gameState.health > 40
  THEN FALSE
  ELSE IF template.Message_ID = "msg_003" /\ "hw_004" \in Range(gameState.ownedHardware)
  THEN FALSE
  ELSE IF template.Message_ID = "msg_010" /\ "ai_004" \in Range(gameState.ownedAiModels)
  THEN FALSE
  ELSE IF template.Action = "Accept Project" /\ template.Project_ID # NoProject
  THEN LET project == FindById(gameState.availableProjects, "Project_ID", template.Project_ID)
       IN IF Len(project) > 0 /\ project[1].Complexity > 70 /\ gameState.day >= 15
          THEN u < 90000000
          ELSE TRUE
  ELSE TRUE

\* The filter predicate of eligibleTemplates for one template; r.ctx and
\* r.prob are the two draws the predicate may consume.
isEligibleTemplate(template, gameState, currentDay, r) ==
  IF isMessageOnCooldown(gameState.recentlyShownMessages, template.Message_ID, currentDay)
  THEN FALSE
  ELSE IF ~passesContextualRequirements(template, gameState, r.ctx)
  THEN FALSE
  ELSE LET probability == OrDefault(template.Value_Probability, 10) * MScale
           passedProbabilityCheck == r.prob < probability
           isProjectOffer == template.Action = "Accept Project" /\ template.Project_ID # NoProject
       IN IF isProjectOffer
          THEN passedProbabilityCheck /\ canOfferProject(template.Project_ID, gameState)
          ELSE passedProbabilityCheck

\* [...eligibleTemplates].sort(() => Math.random() - 0.5): the eligible
\* template indices in the order given by the permutation order
ShuffledEligible(eligible, order) == SelectSeq(order, LAMBDA k : k \in eligible)

\* The first element of seq that is not in chosen; 0 when there is none
FirstNotIn(seq, chosen) ==
  LET rest == SelectSeq(seq, LAMBDA k : k \notin Range(chosen))
  IN IF Len(rest) = 0 THEN 0 ELSE rest[1]

RECURSIVE FillRemaining(_, _, _)
FillRemaining(selectedTemplates, shuffledTemplates, messagesToAdd) ==
  IF Len(selectedTemplates) < messagesToAdd /\ Len(selectedTemplates) < Len(shuffledTemplates)
  THEN LET next == FirstNotIn(shuffledTemplates, selectedTemplates)
       IN IF next # 0
          THEN FillRemaining(Append(selectedTemplates, next), shuffledTemplates, messagesToAdd)
          ELSE selectedTemplates
  ELSE selectedTemplates

\* selectTemplates without the pass that takes one template of each type:
\* the first messagesToAdd of the shuffled templates
selectTemplates_NoTypePass(messageTemplates, shuffledTemplates, messagesToAdd) ==
  FillRemaining(<<>>, shuffledTemplates, messagesToAdd)

\* Indices (into messageTemplates) of the templates chosen by one call
selectTemplates(messageTemplates, shuffledTemplates, messagesToAdd) ==
  LET OfType(ty) == SelectSeq(shuffledTemplates, LAMBDA k : messageTemplates[k].Type = ty)
      socialTemplates == OfType("Social")
      directTemplates == OfType("Direct")
      systemTemplates == OfType("System")
      s1 == IF Len(socialTemplates) > 0 THEN <<socialTemplates[1]>> ELSE <<>>
      s2 == IF Len(directTemplates) > 0 /\ Len(s1) < messagesToAdd
            THEN Append(s1, directTemplates[1]) ELSE s1
      s3 == IF Len(systemTemplates) > 0 /\ Len(s2) < messagesToAdd
            THEN Append(s2, systemTemplates[1]) ELSE s2
  IN FillRemaining(s3, shuffledTemplates, messagesToAdd)

\* for (const template of selectedTemplates) { unshift; record cooldown }
\* A message's title stands for the template it was made from (a template
\* has one Title), its id is the number of ids handed out before it plus one.
RECURSIVE AddMessages(_, _, _, _)
AddMessages(gameState, messageTemplates, selectedTemplates, currentDay) ==
  IF Len(selectedTemplates) = 0 THEN gameState
  ELSE LET template == messageTemplates[selectedTemplates[1]]
           newMessage == [id |-> gameState.msgSeq + 1,
                          type |-> template.Type,
                          title |-> template.Message_ID,
                          action |-> template.Action,
                          projectId |-> template.Project_ID]
       IN AddMessages(
            [gameState EXCEPT
               !.activeFeedMessages = <<newMessage>> \o @,
               !.msgSeq = @ + 1,
               !.recentlyShownMessages = [@ EXCEPT ![template.Message_ID] = currentDay]],
            messageTemplates, Tail(selectedTemplates), currentDay)

\* messageTemplates.filter(...): the indices of the eligible templates;
\* draws[k] are the draws for template k
eligibleTemplates(gameState, draws) ==
  {k \in 1..Len(gameState.messageTemplates) :
     isEligibleTemplate(gameState.messageTemplates[k], gameState,
                        OrDefault(gameState.day, 1), draws[k])}

\* generateNewMessages whose messagesToAdd leaves the room in the feed out:
\* min(3, eligibleTemplates.length)
generateNewMessages_IgnoresCapacity(gameState, rand) ==
  LET messageTemplates == gameState.messageTemplates
      currentDay == OrDefault(gameState.day, 1)
  IN IF Len(messageTemplates) = 0 THEN gameState
     ELSE LET eligible == eligibleTemplates(gameState, rand.draws)
              messagesToAdd == Min(3, Cardinality(eligible))
              shuffledTemplates == ShuffledEligible(eligible, rand.order)
              added == IF messagesToAdd > 0 /\ Cardinality(eligible) > 0
                       THEN AddMessages(gameState, messageTemplates,
                                        selectTemplates(messageTemplates, shuffledTemplates,
                                                        messagesToAdd),
                                        currentDay)
                       ELSE gameState
          IN [added EXCEPT !.activeFeedMessages =
                 IF Len(@) > MAX_FEED_MESSAGES THEN Slice(@, MAX_FEED_MESSAGES) ELSE @]

\* rand.draws[k] are the draws for template k, rand.order the shuffle
generateNewMessages(gameState, rand) ==
  LET messageTemplates == gameState.messageTemplates
      currentDay == OrDefault(gameState.day, 1)
  IN IF Len(messageTemplates) = 0 THEN gameState
     ELSE LET eligible == eligibleTemplates(gameState, rand.draws)
              messagesToAdd == Min(Min(3, MAX_FEED_MESSAGES - Len(gameState.activeFeedMessages)),
                                   Cardinality(eligible))
              shuffledTemplates == ShuffledEligible(eligible, rand.order)
              added == IF messagesToAdd > 0 /\ Cardinality(eligible) > 0
                       THEN AddMessages(gameState, messageTemplates,
                                        selectTemplates(messageTemplates, shuffledTemplates,
                                                        messagesToAdd),
                                        currentDay)
                       ELSE gameState
          IN [added EXCEPT !.activeFeedMessages =
                 IF Len(@) > MAX_FEED_MESSAGES THEN Slice(@, MAX_FEED_MESSAGES) ELSE @]

\* handleFeedAction without the slice(0, MAX_ARCHIVED_FEED_MESSAGES)
handleFeedAction_NoArchiveCap(gameState, messageId, actionType) ==
  LET hits == SelectSeq(gameState.activeFeedMessages, LAMBDA m : m.id = messageId)
  IN IF Len(hits) = 0 THEN gameState
     ELSE LET message == hits[1]
              removed == [gameState EXCEPT !.activeFeedMessages =
                            SelectSeq(@, LAMBDA m : m.id # messageId)]
          IN IF actionType = "accept"
                /\ message.action = "Accept Project" /\ message.projectId # NoProject
             THEN removed
             ELSE [removed EXCEPT !.archivedFeedMessages = <<message>> \o @]

\* handleFeedAction that puts the message behind the archived ones
handleFeedAction_ArchivesLast(gameState, messageId, actionType) ==
  LET hits == SelectSeq(gameState.activeFeedMessages, LAMBDA m : m.id = messageId)
  IN IF Len(hits) = 0 THEN gameState
     ELSE LET message == hits[1]
              removed == [gameState EXCEPT !.activeFeedMessages =
                            SelectSeq(@, LAMBDA m : m.id # messageId)]
              archived ==
                IF actionType = "accept"
                   /\ message.action = "Accept Project" /\ message.projectId # NoProject
                THEN removed
                ELSE [removed EXCEPT !.archivedFeedMessages = Append(@, message)]
          IN [archived EXCEPT !.archivedFeedMessages =
                 IF Len(@) > MAX_ARCHIVED_FEED_MESSAGES
                 THEN Slice(@, MAX_ARCHIVED_FEED_MESSAGES) ELSE @]

handleFeedAction(gameState, messageId, actionType) ==
  LET hits == SelectSeq(gameState.activeFeedMessages, LAMBDA m : m.id = messageId)
  IN IF Len(hits) = 0 THEN gameState
     ELSE LET message == hits[1]
              removed == [gameState EXCEPT !.activeFeedMessages =
                            SelectSeq(@, LAMBDA m : m.id # messageId)]
              archived ==
                IF actionType = "accept"
                   /\ message.action = "Accept Project" /\ message.projectId # NoProject
                THEN removed
                ELSE [removed EXCEPT !.archivedFeedMessages = <<message>> \o @]
          IN [archived EXCEPT !.archivedFeedMessages =
                 IF Len(@) > MAX_ARCHIVED_FEED_MESSAGES
                 THEN Slice(@, MAX_ARCHIVED_FEED_MESSAGES) ELSE @]

\* ------------------------------------------------------------------------
\* logic/gameEngine.ts: one time block
\* ------------------------------------------------------------------------

\* advanceClock with the rollover test newTimeBlocks < 0 in place of <= 0
advanceClock_LateRollover(gameState) ==
  LET isNewDay == gameState.timeBlocks - 1 < 0
      newDay == IF isNewDay THEN gameState.day + 1 ELSE gameState.day
      newTimeBlocks == IF isNewDay THEN TIME_BLOCKS_PER_DAY ELSE gameState.timeBlocks - 1
  IN [gameState EXCEPT
        !.health = IF isNewDay THEN Max(0, @ - dailyHealthCost) ELSE @,
        !.day = newDay,
        !.timeBlocks = newTimeBlocks]

\* Step 1, "Advance Time & Handle Daily Resets"
advanceClock(gameState) ==
  LET isNewDay == gameState.timeBlocks - 1 <= 0
      newDay == IF isNewDay THEN gameState.day + 1 ELSE gameState.day
      newTimeBlocks == IF isNewDay THEN TIME_BLOCKS_PER_DAY ELSE gameState.timeBlocks - 1
  IN [gameState EXCEPT
        !.health = IF isNewDay THEN Max(0, @ - dailyHealthCost) ELSE @,
        !.day = newDay,
        !.timeBlocks = newTimeBlocks]

\* updatedProjectOf without the test of the status
updatedProjectOf_AnyStatus(proj, modifiers, draws) ==
  updateProjectProgress(proj, 1, modifiers, draws)

\* Step 3, the callback of activeProjects.map
updatedProjectOf(proj, modifiers, draws) ==
  IF proj.status = "running"
  THEN updateProjectProgress(proj, 1, modifiers, draws)
  ELSE proj

\* Steps 1 and 2 of advanceTimeBlock: the state generateNewMessages is
\* called with on a day rollover
tickedState(gameState, projDraws) ==
  LET timed == advanceClock(gameState)
      modifiers == calculateCombinedModifiers(timed)
  IN [timed EXCEPT !.activeProjects =
        [i \in 1..Len(timed.activeProjects) |->
           updatedProjectOf(timed.activeProjects[i], modifiers, projDraws[i])]]

\* projDraws[i][k] is the draw for threshold k of activeProjects[i];
\* feedRand is the randomness of generateNewMessages on a day rollover.
advanceTimeBlock(gameState, projDraws, feedRand) ==
  LET isNewDay == gameState.timeBlocks - 1 <= 0
      ticked == tickedState(gameState, projDraws)
  IN IF isNewDay
     THEN LET feedUpdatedState == generateNewMessages(ticked, feedRand)
          IN [ticked EXCEPT
                !.activeFeedMessages = feedUpdatedState.activeFeedMessages,
                !.archivedFeedMessages = feedUpdatedState.archivedFeedMessages,
                !.recentlyShownMessages = feedUpdatedState.recentlyShownMessages,
                !.msgSeq = feedUpdatedState.msgSeq]
     ELSE ticked

\* ------------------------------------------------------------------------
\* contexts/GameContext.tsx: the command handlers
\* ------------------------------------------------------------------------

\* state.availableProjects.find(...) || csvData?.projects?.find(...)
originalProjectOf(state, projectId) ==
  LET inAvailable == FindById(state.availableProjects, "Project_ID", projectId)
  IN IF Len(inAvailable) > 0 THEN inAvailable
     ELSE FindById(state.projects, "Project_ID", projectId)

\* The for loop over completedProjects: acc = [credits, reputation, ids]
RECURSIVE CollectRewards(_, _, _)
CollectRewards(state, completed, acc) ==
  IF Len(completed) = 0 THEN acc
  ELSE LET originalProject == originalProjectOf(state, completed[1].projectId)
       IN CollectRewards(state, Tail(completed),
            IF Len(originalProject) > 0
            THEN [creditsAdded |-> acc.creditsAdded + originalProject[1].Reward,
                  reputationAdded |-> acc.reputationAdded + originalProject[1].Reputation_Reward,
                  ids |-> Append(acc.ids, completed[1].projectId)]
            ELSE acc)

\* handleCompletedProjects that leaves the completed jobs in activeProjects
handleCompletedProjects_NoRemoval(state) ==
  LET completedProjects == SelectSeq(state.activeProjects, LAMBDA p : p.status = "completed")
  IN IF Len(completedProjects) = 0 THEN state
     ELSE LET acc == CollectRewards(state, completedProjects,
                       [creditsAdded |-> 0, reputationAdded |-> 0, ids |-> <<>>])
          IN [state EXCEPT
                !.completedProjects = @ \o acc.ids,
                !.credits = @ + acc.creditsAdded,
                !.reputation = @ + acc.reputationAdded]

handleCompletedProjects(state) ==
  LET completedProjects == SelectSeq(state.activeProjects, LAMBDA p : p.status = "completed")
  IN IF Len(completedProjects) = 0 THEN state
     ELSE LET acc == CollectRewards(state, completedProjects,
                       [creditsAdded |-> 0, reputationAdded |-> 0, ids |-> <<>>])
          IN [state EXCEPT
                !.completedProjects = @ \o acc.ids,
                !.credits = @ + acc.creditsAdded,
                !.reputation = @ + acc.reputationAdded,
                !.activeProjects = SelectSeq(@, LAMBDA p : p.status # "completed")]

\* One iteration of advanceTime's loop: the updater it queues
advanceTime(prevState, projDraws, feedRand) ==
  handleCompletedProjects(advanceTimeBlock(prevState, projDraws, feedRand))

\* newActiveProject with the two rates taken from each other's column
newActiveProject_SwappedRates(projectToAssign, gpuId) ==
  [projectId |-> projectToAssign.Project_ID,
   assignedGpu |-> gpuId,
   progress |-> 0,
   timeRemaining |-> projectToAssign.Baseline_Time * 2 * PUnit,
   errors |-> <<>>,
   status |-> "running",
   baseErrorRate |-> projectToAssign.YOLO_Success,
   yoloSuccessRate |-> projectToAssign.Error_Rate,
   baselineTime |-> projectToAssign.Baseline_Time]

newActiveProject(projectToAssign, gpuId) ==
  [projectId |-> projectToAssign.Project_ID,
   assignedGpu |-> gpuId,
   progress |-> 0,
   timeRemaining |-> projectToAssign.Baseline_Time * 2 * PUnit,
   errors |-> <<>>,
   status |-> "running",
   baseErrorRate |-> projectToAssign.Error_Rate,
   yoloSuccessRate |-> projectToAssign.YOLO_Success,
   baselineTime |-> projectToAssign.Baseline_Time]

\* assignProjectToGpu without the isGpuInUse test
assignProjectToGpu_NoSlotCheck(prevState, projectId, gpuId) ==
  LET projectToAssign == FindById(prevState.availableProjects, "Project_ID", projectId)
  IN IF Len(projectToAssign) = 0 THEN prevState
     ELSE [prevState EXCEPT
             !.activeProjects = Append(@, newActiveProject(projectToAssign[1], gpuId)),
             !.availableProjects = SelectSeq(@, LAMBDA p : p.Project_ID # projectId)]

assignProjectToGpu(prevState, projectId, gpuId) ==
  LET projectToAssign == FindById(prevState.availableProjects, "Project_ID", projectId)
      isGpuInUse == \E i \in 1..Len(prevState.activeProjects) :
                       prevState.activeProjects[i].assignedGpu = gpuId
  IN IF Len(projectToAssign) = 0 THEN prevState
     ELSE IF isGpuInUse THEN prevState
     ELSE [prevState EXCEPT
             !.activeProjects = Append(@, newActiveProject(projectToAssign[1], gpuId)),
             !.availableProjects = SelectSeq(@, LAMBDA p : p.Project_ID # projectId)]

\* activeProjects.findIndex(p => p.projectId === projectId); 0 when absent
findProjectIndex(activeProjects, projectId) ==
  LET hits == {i \in 1..Len(activeProjects) : activeProjects[i].projectId = projectId}
  IN IF hits = {} THEN 0 ELSE CHOOSE i \in hits : \A j \in hits : i <= j

\* failedYolo without Math.max(0, ...) around the reputation
failedYolo_NoFloor(newState, projectId) ==
  [newState EXCEPT
     !.reputation = @ - reputationPenalty,
     !.health = Max(0, @ - healthPenalty),
     !.activeProjects = SelectSeq(@, LAMBDA p : p.projectId # projectId)]

\* failedYolo without the health penalty
failedYolo_NoHealthPenalty(newState, projectId) ==
  [newState EXCEPT
     !.reputation = Max(0, @ - reputationPenalty),
     !.activeProjects = SelectSeq(@, LAMBDA p : p.projectId # projectId)]

\* The branch updatedProject.status === 'failed' of handleYoloAttempt
failedYolo(newState, projectId) ==
  [newState EXCEPT
     !.reputation = Max(0, @ - reputationPenalty),
     !.health = Max(0, @ - healthPenalty),
     !.activeProjects = SelectSeq(@, LAMBDA p : p.projectId # projectId)]

\* handleYoloAttempt that treats a job it does not find as a failed attempt
handleYoloAttempt_PenaltyWhenAbsent(prevState, projectId, u) ==
  LET projectIndex == findProjectIndex(prevState.activeProjects, projectId)
  IN IF projectIndex = 0 THEN failedYolo(prevState, projectId)
     ELSE LET project == prevState.activeProjects[projectIndex]
              modifiers == calculateCombinedModifiers(prevState)
              updatedProject == resolveYolo(project, modifiers, u)
              newState == [prevState EXCEPT !.activeProjects[projectIndex] = updatedProject]
          IN IF updatedProject.status = "failed"
             THEN failedYolo(newState, projectId)
             ELSE newState

handleYoloAttempt(prevState, projectId, u) ==
  LET projectIndex == findProjectIndex(prevState.activeProjects, projectId)
  IN IF projectIndex = 0 THEN prevState
     ELSE LET project == prevState.activeProjects[projectIndex]
              modifiers == calculateCombinedModifiers(prevState)
              updatedProject == resolveYolo(project, modifiers, u)
              newState == [prevState EXCEPT !.activeProjects[projectIndex] = updatedProject]
          IN IF updatedProject.status = "failed"
             THEN failedYolo(newState, projectId)
             ELSE newState

\* handleInterventionAttempt that takes the time block of every attempt
handleInterventionAttempt_AlwaysTimeCost(prevState, projectId, promptId, u) ==
  LET projectIndex == findProjectIndex(prevState.activeProjects, projectId)
  IN IF projectIndex = 0 THEN prevState
     ELSE LET project == prevState.activeProjects[projectIndex]
              modifiers == calculateCombinedModifiers(prevState)
              updatedProject == resolveIntervention(project, promptId, prevState.prompts,
                                                    modifiers, u)
              newHealth == Max(0, prevState.health - healthCost)
          IN [prevState EXCEPT
                !.activeProjects[projectIndex] = updatedProject,
                !.timeBlocks = Max(1, @ - 1),
                !.health = newHealth]

handleInterventionAttempt(prevState, projectId, promptId, u) ==
  LET projectIndex == findProjectIndex(prevState.activeProjects, projectId)
  IN IF projectIndex = 0 THEN prevState
     ELSE LET project == prevState.activeProjects[projectIndex]
              modifiers == calculateCombinedModifiers(prevState)
              updatedProject == resolveIntervention(project, promptId, prevState.prompts,
                                                    modifiers, u)
              wasSuccessful == project.status = "error" /\ updatedProject.status = "running"
              newHealth == Max(0, prevState.health - healthCost)
          IN [prevState EXCEPT
                !.activeProjects[projectIndex] = updatedProject,
                !.timeBlocks = IF wasSuccessful THEN Max(1, @ - 1) ELSE @,
                !.health = newHealth]

\* handleFeedMessageAction without the isDuplicate test
handleFeedMessageAction_NoDuplicateCheck(prevState, messageId, actionType) ==
  LET hits == SelectSeq(prevState.activeFeedMessages, LAMBDA m : m.id = messageId)
  IN IF Len(hits) = 0 THEN prevState
     ELSE LET message == hits[1]
              feedUpdatedState == handleFeedAction(prevState, messageId, actionType)
              updatedState == [prevState EXCEPT
                                 !.activeFeedMessages = feedUpdatedState.activeFeedMessages,
                                 !.archivedFeedMessages = feedUpdatedState.archivedFeedMessages]
          IN IF actionType = "accept" /\ message.projectId # NoProject
             THEN LET projectData == FindById(prevState.projects, "Project_ID", message.projectId)
                  IN IF Len(projectData) = 0 THEN updatedState
                     ELSE [updatedState EXCEPT
                             !.availableProjects = Append(@, projectData[1])]
             ELSE updatedState

handleFeedMessageAction(prevState, messageId, actionType) ==
  LET hits == SelectSeq(prevState.activeFeedMessages, LAMBDA m : m.id = messageId)
  IN IF Len(hits) = 0 THEN prevState
     ELSE LET message == hits[1]
              feedUpdatedState == handleFeedAction(prevState, messageId, actionType)
              updatedState == [prevState EXCEPT
                                 !.activeFeedMessages = feedUpdatedState.activeFeedMessages,
                                 !.archivedFeedMessages = feedUpdatedState.archivedFeedMessages]
          IN IF actionType = "accept" /\ message.projectId # NoProject
             THEN LET projectData == FindById(prevState.projects, "Project_ID", message.projectId)
                      isDuplicate == \E i \in 1..Len(updatedState.availableProjects) :
                                        updatedState.availableProjects[i].Project_ID
                                          = message.projectId
                  IN IF Len(projectData) = 0 THEN updatedState
                     ELSE IF isDuplicate THEN updatedState
                     ELSE [updatedState EXCEPT
                             !.availableProjects = Append(@, projectData[1])]
             ELSE updatedState

\* purchaseItem without the three "already owned" tests
purchaseItem_NoOwnedCheck(gameState, itemId, itemType) ==
  LET itemData ==
        CASE itemType = "hardware" -> FindById(gameState.hardware, "Hardware_ID", itemId)
          [] itemType = "aiModel"  -> FindById(gameState.aiModels, "Model_ID", itemId)
          [] itemType = "prompt"   -> FindById(gameState.prompts, "Prompt_ID", itemId)
          [] OTHER -> <<>>
  IN IF Len(itemData) = 0 THEN gameState
     ELSE LET itemCost == IF itemData[1].Cost = Undefined THEN 0 ELSE itemData[1].Cost
          IN IF gameState.credits < itemCost THEN gameState
             ELSE LET paid == [gameState EXCEPT !.credits = @ - itemCost]
                  IN CASE itemType = "hardware" ->
                            [paid EXCEPT !.ownedHardware = Append(@, itemId)]
                       [] itemType = "aiModel" ->
                            [paid EXCEPT !.ownedAiModels = Append(@, itemId)]
                       [] itemType = "prompt" ->
                            [paid EXCEPT !.ownedPrompts = Append(@, itemId)]

\* logic/resourceManager.ts
purchaseItem(gameState, itemId, itemType) ==
  LET itemData ==
        CASE itemType = "hardware" -> FindById(gameState.hardware, "Hardware_ID", itemId)
          [] itemType = "aiModel"  -> FindById(gameState.aiModels, "Model_ID", itemId)
          [] itemType = "prompt"   -> FindById(gameState.prompts, "Prompt_ID", itemId)
          [] OTHER -> <<>>
  IN IF Len(itemData) = 0 THEN gameState
     ELSE LET itemCost == IF itemData[1].Cost = Undefined THEN 0 ELSE itemData[1].Cost
          IN IF itemType = "hardware" /\ itemId \in Range(gameState.ownedHardware)
             THEN gameState
             ELSE IF itemType = "aiModel" /\ itemId \in Range(gameState.ownedAiModels)
             THEN gameState
             ELSE IF itemType = "prompt" /\ itemId \in Range(gameState.ownedPrompts)
             THEN gameState
             ELSE IF gameState.credits < itemCost THEN gameState
             ELSE LET paid == [gameState EXCEPT !.credits = @ - itemCost]
                  IN CASE itemType = "hardware" ->
                            [paid EXCEPT !.ownedHardware = Append(@, itemId)]
                       [] itemType = "aiModel" ->
                            [paid EXCEPT !.ownedAiModels = Append(@, itemId)]
                       [] itemType = "prompt" ->
                            [paid EXCEPT !.ownedPrompts = Append(@, itemId)]

\* ------------------------------------------------------------------------
\* Catalog data (public/data/*.csv as loaded by useCsvLoader).  Rates and
\* probabilities are in hundredths.  The main catalog holds two offers of
\* job p1.
\* ------------------------------------------------------------------------
MainCatalog ==
  [hardware |-> <<
     [Hardware_ID |-> "hw_001", Processing_Power |-> 0, Memory |-> 0,
      Energy_Efficiency |-> 0, Cost |-> 0],
     [Hardware_ID |-> "hw_004", Processing_Power |-> 5, Memory |-> 5,
      Energy_Efficiency |-> 0, Cost |-> 1000] >>,
   aiModels |-> <<
     [Model_ID |-> "ai_004", Accuracy |-> 2, Inference_Speed |-> 0, Cost |-> 5000] >>,
   prompts |-> <<
     [Prompt_ID |-> "pr_001", Clarity |-> 3, Specificity |-> 3, Adaptability |-> 0,
      Cost |-> 0],
     [Prompt_ID |-> "pr_002", Clarity |-> 5, Specificity |-> 5, Adaptability |-> 5,
      Cost |-> 5000] >>,
   projects |-> <<
     [Project_ID |-> "p1", Complexity |-> 30, Baseline_Time |-> 2, YOLO_Success |-> 0,
      Error_Rate |-> 50, Reward |-> 100, Reputation_Reward |-> 15],
     [Project_ID |-> "p2", Complexity |-> 80, Baseline_Time |-> 4, YOLO_Success |-> 50,
      Error_Rate |-> 100, Reward |-> 150, Reputation_Reward |-> 0] >>,
   messages |-> <<
     [Message_ID |-> "msg_002", Type |-> "Direct", Action |-> "Accept Project",
      Project_ID |-> "p1", Value_Probability |-> 50],
     [Message_ID |-> "msg_007", Type |-> "Social", Action |-> "Accept Project",
      Project_ID |-> "p1", Value_Probability |-> 100] >>]

\* A catalog for the message feed: two offers of job p1, and the three
\* templates passesContextualRequirements knows by id
FeedCatalog ==
  [hardware |-> <<
     [Hardware_ID |-> "hw_001", Processing_Power |-> 0, Memory |-> 0,
      Energy_Efficiency |-> 0, Cost |-> 0],
     [Hardware_ID |-> "hw_004", Processing_Power |-> 5, Memory |-> 5,
      Energy_Efficiency |-> 0, Cost |-> 400] >>,
   aiModels |-> <<
     [Model_ID |-> "ai_004", Accuracy |-> 2, Inference_Speed |-> 0, Cost |-> 400] >>,
   prompts |-> <<
     [Prompt_ID |-> "pr_001", Clarity |-> 3, Specificity |-> 3, Adaptability |-> 0,
      Cost |-> 0] >>,
   projects |-> <<
     [Project_ID |-> "p1", Complexity |-> 30, Baseline_Time |-> 2, YOLO_Success |-> 0,
      Error_Rate |-> 50, Reward |-> 100, Reputation_Reward |-> 15] >>,
   messages |-> <<
     [Message_ID |-> "msg_002", Type |-> "Direct", Action |-> "Accept Project",
      Project_ID |-> "p1", Value_Probability |-> 100],
     [Message_ID |-> "msg_003", Type |-> "System", Action |-> "Open",
      Project_ID |-> NoProject, Value_Probability |-> 50],
     [Message_ID |-> "msg_006", Type |-> "System", Action |-> "Dismiss",
      Project_ID |-> NoProject, Value_Probability |-> 100],
     [Message_ID |-> "msg_007", Type |-> "Social", Action |-> "Accept Project",
      Project_ID |-> "p1", Value_Probability |-> 50],
     [Message_ID |-> "msg_010", Type |-> "Direct", Action |-> "Open",
      Project_ID |-> NoProject, Value_Probability |-> 100] >>]

\* The pool catalog: the feed catalog with five templates that offer no job
\* and have no contextual requirement, three of them of one type, each shown
\* with probability one half
PoolCatalog ==
  [FeedCatalog EXCEPT
     !.messages = <<
       [Message_ID |-> "msg_001", Type |-> "Direct", Action |-> "Open",
        Project_ID |-> NoProject, Value_Probability |-> 50],
       [Message_ID |-> "msg_004", Type |-> "Direct", Action |-> "Open",
        Project_ID |-> NoProject, Value_Probability |-> 50],
       [Message_ID |-> "msg_005", Type |-> "Direct", Action |-> "Dismiss",
        Project_ID |-> NoProject, Value_Probability |-> 50],
       [Message_ID |-> "msg_008", Type |-> "System", Action |-> "Open",
        Project_ID |-> NoProject, Value_Probability |-> 50],
       [Message_ID |-> "msg_009", Type |-> "Social", Action |-> "Open",
        Project_ID |-> NoProject, Value_Probability |-> 50] >>]

\* ------------------------------------------------------------------------
\* State
\* ------------------------------------------------------------------------
VARIABLES
  day, timeBlocks, credits, reputation, health,
  activeProjects, availableProjects, completedProjects,
  ownedHardware, ownedAiModels, ownedPrompts,
  activeFeedMessages, archivedFeedMessages, availableGpus,
  recentlyShownMessages,   \* feedLogic.ts module-level cooldown table
  msgSeq,                  \* number of feed message ids handed out
  blockProgress,           \* progress within the time block, in hundredths
  csvData,                 \* the catalogs returned by useCsvLoader
  loader,                  \* useCsvLoader: loading, error and the five fetches
  gameLoop,                \* useGameLoop: isRunning, speed and the three refs
  timers,                  \* the intervals of the window that are not cleared
  updates,                 \* the updaters given to setGameState and not yet applied
  tickLog,                 \* the block advances asked of advanceTime and applied
  errorLog,                \* job id -> thresholds that raised an error in the job's
                           \* current run (kept after the job is removed until
                           \* the next command that changes the state)
  last                     \* the command applied last and its outcome

vars == <<day, timeBlocks, credits, reputation, health,
          activeProjects, availableProjects, completedProjects,
          ownedHardware, ownedAiModels, ownedPrompts,
          activeFeedMessages, archivedFeedMessages, availableGpus,
          recentlyShownMessages, msgSeq, blockProgress, csvData,
          loader, gameLoop, timers, updates, tickLog, errorLog, last>>

\* The state of the host of the game state
hostVars == <<loader, gameLoop, timers, updates, tickLog>>

CsvData == csvData

\* The current state as the record the handlers receive; projects is the
\* csvData.projects the handlers close over
GameState ==
  [day |-> day, timeBlocks |-> timeBlocks, credits |-> credits,
   reputation |-> reputation, health |-> health,
   aiModels |-> CsvData.aiModels, availableProjects |-> availableProjects,
   prompts |-> CsvData.prompts, hardware |-> CsvData.hardware,
   messageTemplates |-> CsvData.messages, projects |-> CsvData.projects,
   activeProjects |-> activeProjects,
   ownedHardware |-> ownedHardware, ownedAiModels |-> ownedAiModels,
   ownedPrompts |-> ownedPrompts,
   activeFeedMessages |-> activeFeedMessages,
   archivedFeedMessages |-> archivedFeedMessages,
   availableGpus |-> availableGpus, completedProjects |-> completedProjects,
   recentlyShownMessages |-> recentlyShownMessages, msgSeq |-> msgSeq,
   blockProgress |-> blockProgress]

\* The fields of the game state become those of newState
SetFields(newState) ==
  \E s \in {newState} :
    /\ day' = s.day /\ timeBlocks' = s.timeBlocks /\ credits' = s.credits
    /\ reputation' = s.reputation /\ health' = s.health
    /\ activeProjects' = s.activeProjects
    /\ availableProjects' = s.availableProjects
    /\ completedProjects' = s.completedProjects
    /\ ownedHardware' = s.ownedHardware /\ ownedAiModels' = s.ownedAiModels
    /\ ownedPrompts' = s.ownedPrompts
    /\ activeFeedMessages' = s.activeFeedMessages
    /\ archivedFeedMessages' = s.archivedFeedMessages
    /\ availableGpus' = s.availableGpus
    /\ recentlyShownMessages' = s.recentlyShownMessages
    /\ msgSeq' = s.msgSeq
    /\ blockProgress' = s.blockProgress

\* setGameState: the catalogs of the loader stay as they are
SetGameState(newState) == SetFields(newState) /\ UNCHANGED csvData

\* The shop catalogs: the starting hardware hw_001 and two further hardware
\* items and two AI models whose attributes are drawn from AttributeValues.
\* Any two of hw_002, hw_003 and ai_002 can be paid from the initial
\* credits, not all three; ai_001 and pr_002 have no Cost column
\* (csvParser.ts:43-45).
AttributeValues == {0, MaxAttribute}

HardwareKinds ==
  [Processing_Power : AttributeValues, Memory : AttributeValues,
   Energy_Efficiency : AttributeValues]

AiModelKinds == [Accuracy : AttributeValues, Inference_Speed : AttributeValues]

ShopCatalog(h2, h3, a1, a2) ==
  [hardware |-> <<
     [Hardware_ID |-> "hw_001", Processing_Power |-> 0, Memory |-> 0,
      Energy_Efficiency |-> 0, Cost |-> 0],
     [Hardware_ID |-> "hw_002", Processing_Power |-> h2.Processing_Power,
      Memory |-> h2.Memory, Energy_Efficiency |-> h2.Energy_Efficiency, Cost |-> 300],
     [Hardware_ID |-> "hw_003", Processing_Power |-> h3.Processing_Power,
      Memory |-> h3.Memory, Energy_Efficiency |-> h3.Energy_Efficiency, Cost |-> 300] >>,
   aiModels |-> <<
     [Model_ID |-> "ai_001", Accuracy |-> a1.Accuracy,
      Inference_Speed |-> a1.Inference_Speed, Cost |-> Undefined],
     [Model_ID |-> "ai_002", Accuracy |-> a2.Accuracy,
      Inference_Speed |-> a2.Inference_Speed, Cost |-> 500] >>,
   prompts |-> <<
     [Prompt_ID |-> "pr_001", Clarity |-> 3, Specificity |-> 3, Adaptability |-> 0,
      Cost |-> 0],
     [Prompt_ID |-> "pr_002", Clarity |-> 5, Specificity |-> 5, Adaptability |-> 5,
      Cost |-> Undefined] >>,
   projects |-> <<>>,
   messages |-> <<>>]

\* The tick catalogs: the starting hardware and prompt only, so that every
\* multiplier is 1.0, job p1 of Baseline_Time 4 and a second job; both jobs
\* resume after every YOLO attempt.  The baseline times are powers of two,
\* whose increments the program's floating point adds exactly.
TickBaselines == {1, 2, 4}
TickErrorRates == {0, 50}

TickCatalog(baseline, rate) ==
  [hardware |-> <<
     [Hardware_ID |-> "hw_001", Processing_Power |-> 0, Memory |-> 0,
      Energy_Efficiency |-> 0, Cost |-> 0] >>,
   aiModels |-> <<>>,
   prompts |-> <<
     [Prompt_ID |-> "pr_001", Clarity |-> 3, Specificity |-> 3, Adaptability |-> 0,
      Cost |-> 0] >>,
   projects |-> <<
     [Project_ID |-> "p1", Complexity |-> 30, Baseline_Time |-> 4, YOLO_Success |-> 100,
      Error_Rate |-> rate, Reward |-> 100, Reputation_Reward |-> 15],
     [Project_ID |-> "p2", Complexity |-> 30, Baseline_Time |-> baseline,
      YOLO_Success |-> 100, Error_Rate |-> 50, Reward |-> 150, Reputation_Reward |-> 0] >>,
   messages |-> <<>>]

\* The roll catalogs: a tick catalog with a second, free hardware item that
\* becomes the active one when bought.  Its Energy_Efficiency gives the
\* errorMultiplier 1.0 * (1 - Energy_Efficiency * 0.04) * 1.0: 0.6, 0 and
\* -0.04, beside the 1.0 of the starting hardware.
RollEfficiencies == {10, 25, 26}
RollErrorRates == {0, 50, 100}

RollCatalog(efficiency, rate) ==
  [TickCatalog(2, rate) EXCEPT
     !.hardware = Append(@, [Hardware_ID |-> "hw_002", Processing_Power |-> 1,
                             Memory |-> 0, Energy_Efficiency |-> efficiency,
                             Cost |-> 0])]

\* useState(...) of GameProvider, before the catalogs arrive
initialGameState(catalog) ==
  [day |-> 1, timeBlocks |-> 8, credits |-> InitialCredits, reputation |-> 0,
   health |-> InitialHealth,
   aiModels |-> <<>>, availableProjects |-> <<>>, prompts |-> <<>>,
   hardware |-> <<>>, messageTemplates |-> <<>>, projects |-> <<>>,
   activeProjects |-> <<>>,
   ownedHardware |-> <<"hw_001">>, ownedAiModels |-> <<>>,
   ownedPrompts |-> <<"pr_001">>,
   activeFeedMessages |-> <<>>, archivedFeedMessages |-> <<>>,
   availableGpus |-> InitialGpus, completedProjects |-> <<>>,
   recentlyShownMessages |-> [id \in {catalog.messages[k].Message_ID :
                                        k \in 1..Len(catalog.messages)} |-> 0],
   msgSeq |-> 0, blockProgress |-> 0]

\* The useEffect that runs once the catalogs are loaded
csvLoaded(prevState, catalog, feedRand) ==
  LET updatedState ==
        [prevState EXCEPT
           !.aiModels = catalog.aiModels,
           !.availableProjects =
              SelectSeq(catalog.projects,
                        LAMBDA p : ~\E i \in 1..Len(prevState.activeProjects) :
                                       prevState.activeProjects[i].projectId = p.Project_ID),
           !.prompts = catalog.prompts,
           !.hardware = catalog.hardware,
           !.messageTemplates = catalog.messages,
           !.projects = catalog.projects]
  IN generateNewMessages(updatedState, feedRand)

\* The outcomes of the shuffle of n templates
ShuffleOrders(n) ==
  {f \in [1..n -> 1..n] : \A i, j \in 1..n : i # j => f[i] # f[j]}

\* Threshold k is crossed by the next tick of proj
crossesThreshold(proj, modifiers, k) ==
  /\ proj.status = "running"
  /\ proj.progress < ThresholdUnits(PROJECT_ERROR_THRESHOLDS[k])
  /\ updateProjectProgress(proj, 1, modifiers, [j \in 1..Len(PROJECT_ERROR_THRESHOLDS) |-> RUnit - 1]).progress
        >= ThresholdUnits(PROJECT_ERROR_THRESHOLDS[k])

\* The draws of one tick of gameState: both values for every threshold a
\* job crosses; a threshold that is not crossed is not rolled and its draw
\* is fixed to 0
TickDraws(gameState) ==
  LET modifiers == calculateCombinedModifiers(gameState)
      AllDraws == [1..Len(PROJECT_ERROR_THRESHOLDS) -> RandomDraws]
      jobDraws == [i \in 1..Len(gameState.activeProjects) |->
                     {d \in AllDraws :
                        \A k \in 1..Len(PROJECT_ERROR_THRESHOLDS) :
                          ~crossesThreshold(gameState.activeProjects[i], modifiers, k)
                            => d[k] = 0}]
  IN {d \in [1..Len(gameState.activeProjects) -> AllDraws] :
        \A i \in 1..Len(gameState.activeProjects) : d[i] \in jobDraws[i]}

\* The boost draw of passesContextualRequirements is made for template
usesBoostDraw(template, gameState) ==
  /\ template.Action = "Accept Project" /\ template.Project_ID # NoProject
  /\ LET project == FindById(gameState.availableProjects, "Project_ID", template.Project_ID)
     IN Len(project) > 0 /\ project[1].Complexity > 70 /\ gameState.day >= 15

\* The probability draw of the filter is made for template
usesProbabilityDraw(template, gameState) ==
  /\ ~isMessageOnCooldown(gameState.recentlyShownMessages, template.Message_ID,
                          OrDefault(gameState.day, 1))
  /\ \E u \in RandomDraws : passesContextualRequirements(template, gameState, u)

\* The outcomes of the shuffle of the templates in the set eligible
ShuffleOrdersOf(eligible) ==
  {f \in [1..Cardinality(eligible) -> eligible] :
     \A i, j \in 1..Cardinality(eligible) : i # j => f[i] # f[j]}

\* The randomness of one generateNewMessages call of gameState: the draws
\* of the filter (a draw that is not made is fixed to 0) and, for each, the
\* orders the shuffle can give the eligible templates
FeedDraws(gameState) ==
  LET n == Len(gameState.messageTemplates)
      filterDraws ==
        {d \in [1..n -> [ctx : RandomDraws, prob : RandomDraws]] :
           \A k \in 1..n :
             /\ ~usesBoostDraw(gameState.messageTemplates[k], gameState) => d[k].ctx = 0
             /\ ~usesProbabilityDraw(gameState.messageTemplates[k], gameState)
                  => d[k].prob = 0}
  IN UNION {{[draws |-> d, order |-> o] :
               o \in ShuffleOrdersOf(eligibleTemplates(gameState, d))} : d \in filterDraws}

\* The randomness of one generateNewMessages call over n templates
FeedRands(n) ==
  [draws : [1..n -> [ctx : RandomDraws, prob : RandomDraws]], order : ShuffleOrders(n)]

NoRand == [draws |-> <<>>, order |-> <<>>]

\* k intervention attempts on a job that is not in error: each costs
\* healthCost and changes nothing else
RECURSIVE Interventions(_, _, _, _)
Interventions(k, state, projectId, promptId) ==
  IF k = 0 THEN state
  ELSE IF k = 1
       THEN handleInterventionAttempt(state, projectId, promptId, RUnit - 1)
       ELSE LET half == Interventions(k \div 2, state, projectId, promptId)
            IN IF half = state THEN state
               ELSE Interventions(k - k \div 2, half, projectId, promptId)

\* The state in which play begins, and a state of low health reached from
\* it by assigning p2 to slot 1 and attempting InitialHealth - LowHealth
\* interventions on it
StartStates(catalog) ==
  LET loaded == {csvLoaded(initialGameState(catalog), catalog, r) :
                   r \in FeedRands(Len(catalog.messages))}
  IN loaded \cup
     {Interventions(InitialHealth - LowHealth,
                    assignProjectToGpu(s, "p2", 1), "p2", "pr_001") : s \in loaded}

CatalogProjectIds(catalog) ==
  {catalog.projects[k].Project_ID : k \in 1..Len(catalog.projects)}

\* The command applied last: its name, the job it named ("" for a command
\* that names none) and its outcome
NoCommand == [op |-> "init", projectId |-> "", result |-> "done", held |-> 0]

\* ------------------------------------------------------------------------
\* The host of the game state when play begins
\* ------------------------------------------------------------------------

\* The keys of the filePaths GameProvider gives useCsvLoader, in the order
\* of Object.entries
SourceKeys == <<"aiModels", "projects", "prompts", "hardware", "messages">>

\* useCsvLoader after loadAllCsvs returned with every source parsed:
\* fetches is the outcome of each source's fetch and parse, errors the
\* local of loadAllCsvs and error the state error (<<>> is null)
loaderDone ==
  [loading |-> FALSE, error |-> <<>>,
   fetches |-> [k \in Range(SourceKeys) |-> "parsed"], errors |-> <<>>]

\* useCsvLoader at mount: useState({}), useState(true), useState(null) and
\* the five fetches of loadAllCsvs under way
loaderMounted ==
  [loading |-> TRUE, error |-> <<>>,
   fetches |-> [k \in Range(SourceKeys) |-> "pending"], errors |-> <<>>]

\* data of useCsvLoader at mount: no key is defined, and the game state
\* reads csvData[key] || []
NoData == [k \in Range(SourceKeys) |-> <<>>]

\* What the fetch and the parse of a source come to: the records parsed, a
\* fetch that throws or is not ok, a parse that rejects, and a malformed
\* file, whose parse completes with results.errors
SourceOutcomes == {"parsed", "httpError", "parseRejected", "malformed"}

\* The outcomes that reach the catch of the source's promise
Thrown == {"httpError", "parseRejected"}

\* results.data of a file whose last row is malformed: the rows before it
rowsBefore(rows) == SubSeq(rows, 1, Len(rows) - 1)

\* parseCsvData of the text of a file of rows: what its promise resolves to
parseCsvData(rows, outcome) ==
  IF outcome = "malformed" THEN rowsBefore(rows) ELSE rows

\* loadedData once every source has settled
loadedDataOf(files, fetches) ==
  [k \in Range(SourceKeys) |->
     IF fetches[k] \in Thrown THEN <<>> ELSE parseCsvData(files[k], fetches[k])]

\* useGameLoop after its first render: useState(autoAdvance), useState(initialSpeed)
\* and the three useRef; 0 is the null of a timer ref
gameLoopMounted ==
  [isRunning |-> FALSE, speed |-> "medium",
   intervalRef |-> 0, progressIntervalRef |-> 0, currentStepRef |-> 0]

\* The block advances asked of advanceTime and those applied
NoTicks == [issued |-> 0, applied |-> 0]

\* The intervals of the window: those set and not cleared, and the number
\* of ids handed out
NoTimers == [live |-> {}, handed |-> 0]

\* window.setInterval(callback, delay): the id it returns is handed + 1
setInterval(t, callback, delay) ==
  [live |-> t.live \cup {[id |-> t.handed + 1, callback |-> callback, delay |-> delay]},
   handed |-> t.handed + 1]

\* clearInterval that leaves the interval running
clearInterval_KeepsTimer(t, id) == t

\* window.clearInterval(id)
clearInterval(t, id) == [t EXCEPT !.live = {x \in @ : x.id # id}]

\* if (ref.current !== null) window.clearInterval(ref.current)
clearRef(t, ref) == IF ref # 0 THEN clearInterval(t, ref) ELSE t

\* The updaters given to setGameState
advanceTimeUpdater ==
  [kind |-> "advanceTime", progress |-> 0, itemId |-> "", itemType |-> ""]
setBlockProgressUpdater(progress) ==
  [kind |-> "setBlockProgressValue", progress |-> progress, itemId |-> "", itemType |-> ""]
purchaseItemUpdater(itemId, itemType) ==
  [kind |-> "purchaseItem", progress |-> 0, itemId |-> itemId, itemType |-> itemType]

\* advanceTime whose loop body runs once whatever blocks is
advanceTimeUpdaters_OneForAll(blocks) == <<advanceTimeUpdater>>

\* advanceTime(blocks): the updaters its loop gives to setGameState
advanceTimeUpdaters(blocks) == [k \in 1..blocks |-> advanceTimeUpdater]

\* setupGameLoop of the render in which the hook's state is loop: the hook's
\* refs and the window's intervals after it, and the updaters it gives
setupGameLoop(loop, t) ==
  LET cleared == clearRef(clearRef(t, loop.intervalRef), loop.progressIntervalRef)
      withProgress == setInterval(cleared, "progress", SPEEDS[loop.speed] \div PROGRESS_STEPS)
      withBlock == setInterval(withProgress, "block", SPEEDS[loop.speed])
  IN [gameLoop |-> [loop EXCEPT !.currentStepRef = 0,
                                !.progressIntervalRef = withProgress.handed,
                                !.intervalRef = withBlock.handed],
      timers |-> withBlock,
      given |-> <<setBlockProgressUpdater(0)>>]

\* The effect on [isRunning, setupGameLoop, setBlockProgressValue] after a
\* render that changed isRunning or speed: the cleanup of the previous
\* effect, which clears the intervals and leaves the refs, then the effect
runLoopEffect(loop, t) ==
  LET cleaned == clearRef(clearRef(t, loop.intervalRef), loop.progressIntervalRef)
  IN IF loop.isRunning THEN setupGameLoop(loop, cleaned)
     ELSE [gameLoop |-> [loop EXCEPT !.intervalRef = 0, !.progressIntervalRef = 0],
           timers |-> clearRef(clearRef(cleaned, loop.intervalRef),
                               loop.progressIntervalRef),
           given |-> <<setBlockProgressUpdater(0)>>]

\* The host when play begins: the catalogs are loaded, the loop is not
\* running and every updater has been applied
HostIdle ==
  /\ loader = loaderDone
  /\ gameLoop = gameLoopMounted
  /\ timers = NoTimers
  /\ updates = <<>>
  /\ tickLog = NoTicks

\* The fields of the game state are those of one of states
FieldsIn(states) ==
     \E s \in states :
       /\ day = s.day /\ timeBlocks = s.timeBlocks /\ credits = s.credits
       /\ reputation = s.reputation /\ health = s.health
       /\ activeProjects = s.activeProjects
       /\ availableProjects = s.availableProjects
       /\ completedProjects = s.completedProjects
       /\ ownedHardware = s.ownedHardware /\ ownedAiModels = s.ownedAiModels
       /\ ownedPrompts = s.ownedPrompts
       /\ activeFeedMessages = s.activeFeedMessages
       /\ archivedFeedMessages = s.archivedFeedMessages
       /\ availableGpus = s.availableGpus
       /\ recentlyShownMessages = s.recentlyShownMessages
       /\ msgSeq = s.msgSeq
       /\ blockProgress = s.blockProgress

\* Play begins in one of states with the catalogs catalog
StartsIn(catalog, states) ==
  /\ csvData = catalog
  /\ HostIdle
  /\ last = NoCommand
  /\ errorLog = [id \in CatalogProjectIds(catalog) |-> <<>>]
  /\ FieldsIn(states)

Init == StartsIn(MainCatalog, StartStates(MainCatalog))

\* The randomness of a generateNewMessages call in which every draw is 0
\* and the shuffle leaves the eligible templates in catalog order
PlainRand(gameState) ==
  LET n == Len(gameState.messageTemplates)
      d == [k \in 1..n |-> [ctx |-> 0, prob |-> 0]]
  IN [draws |-> d,
      order |-> SelectSeq([k \in 1..n |-> k],
                          LAMBDA k : k \in eligibleTemplates(gameState, d))]

\* The state after the player archived every message of the feed, oldest
\* first
RECURSIVE ArchiveAll(_)
ArchiveAll(state) ==
  IF Len(state.activeFeedMessages) = 0 THEN state
  ELSE ArchiveAll(handleFeedMessageAction(
                    state, state.activeFeedMessages[Len(state.activeFeedMessages)].id,
                    "archive"))

\* k advanceTime commands on a state without active jobs
RECURSIVE Ticks(_, _)
Ticks(k, state) ==
  IF k = 0 THEN state
  ELSE LET next == advanceTime(state, <<>>,
                               IF state.timeBlocks - 1 <= 0
                               THEN PlainRand(tickedState(state, <<>>))
                               ELSE NoRand)
       IN IF next = state THEN state ELSE Ticks(k - 1, next)

\* Days of play in which the player archives the whole feed in the morning
\* and lets the day pass, until the feed and the archive together hold
\* more than MAX_ARCHIVED_FEED_MESSAGES messages
RECURSIVE PlayedOn(_)
PlayedOn(state) ==
  IF Len(state.activeFeedMessages) + Len(state.archivedFeedMessages)
       > MAX_ARCHIVED_FEED_MESSAGES
  THEN state
  ELSE LET next == Ticks(TIME_BLOCKS_PER_DAY, ArchiveAll(state))
       IN IF next = state THEN state ELSE PlayedOn(next)

\* The states in which the exploration of the feed begins: job p1 was
\* assigned and lost to a failed YOLO attempt on day 1, after so many
\* intervention attempts that the second daily cost brings health to the
\* 40 of passesContextualRequirements; and the state many days later in
\* which the archive is about to overflow
FeedStartStates(catalog) ==
  LET loaded == {csvLoaded(initialGameState(catalog), catalog, r) :
                   r \in FeedRands(Len(catalog.messages))}
      lost == {handleYoloAttempt(
                 Interventions(InitialHealth - healthPenalty - 2 * dailyHealthCost - 40,
                               assignProjectToGpu(s, "p1", 1), "p1", "pr_001"),
                 "p1", 0) : s \in loaded}
  IN lost \cup {PlayedOn(s) : s \in lost}

FeedInit == StartsIn(FeedCatalog, FeedStartStates(FeedCatalog))

\* Play with a tick catalog begins with job p1 assigned to slot 1 in the
\* first time block, alone or with job p2 on slot 2
TickStartStates(catalog) ==
  LET loaded == csvLoaded(initialGameState(catalog), catalog, NoRand)
      one == assignProjectToGpu(loaded, "p1", 1)
  IN {one, assignProjectToGpu(one, "p2", 2)}

TickInit ==
  \E baseline \in TickBaselines : \E rate \in TickErrorRates :
    StartsIn(TickCatalog(baseline, rate), TickStartStates(TickCatalog(baseline, rate)))

\* The state in which play begins with a roll catalog
RollInit ==
  \E efficiency \in RollEfficiencies : \E rate \in RollErrorRates :
    StartsIn(RollCatalog(efficiency, rate),
             TickStartStates(RollCatalog(efficiency, rate)))

\* Play with the pool catalog begins when the catalogs have arrived
PoolInit ==
  StartsIn(PoolCatalog, {csvLoaded(initialGameState(PoolCatalog), PoolCatalog, r) :
                           r \in FeedRands(Len(PoolCatalog.messages))})

\* The state in which play begins with a shop catalog
ShopInit ==
  \E h2, h3 \in HardwareKinds : \E a1, a2 \in AiModelKinds :
    LET catalog == ShopCatalog(h2, h3, a1, a2)
    IN StartsIn(catalog, {csvLoaded(initialGameState(catalog), catalog, NoRand)})

\* ------------------------------------------------------------------------
\* Inputs of the commands
\* ------------------------------------------------------------------------
ProjectIds == {"p1", "p2", "p9"}          \* p9 is in no catalog
GpuIds == {1, 2, 5}                       \* 5 is beyond the GPU slots
PromptIds == {"pr_001", "pr_002", "pr_999"}   \* pr_999 is in no catalog
ItemTypes == {"hardware", "aiModel", "prompt", "gadget"}   \* gadget is no item type
ItemIds == {"hw_001", "hw_002", "hw_003", "ai_001", "ai_002", "pr_001", "pr_002",
            "hw_999"}                                       \* hw_999 is in no catalog
\* The purchases tried: with a shop catalog every id as every type
PurchaseInputs ==
  IF csvData \in {MainCatalog, FeedCatalog, PoolCatalog}
  THEN {<<"hw_004", "hardware">>, <<"hw_001", "hardware">>,
        <<"ai_004", "aiModel">>, <<"pr_002", "prompt">>,
        <<"hw_999", "hardware">>}
  ELSE ItemIds \X ItemTypes
ActionTypes == {"accept", "dismiss", "archive"}

\* Health values from which intervention attempts are explored
InterventionExplored == health <= LowHealth \/ health > InitialHealth - MaxHealthDrop

\* ------------------------------------------------------------------------
\* Actions: one per command of the context
\* ------------------------------------------------------------------------
\* The thresholds of the errors the step from job record before to after added
RaisedBy(before, after) ==
  [k \in 1..(Len(after.errors) - Len(before.errors)) |->
     after.errors[Len(before.errors) + k].threshold]

\* errorLog after a command that turns the job records into updated (before
\* any removal): a job that was not active starts from the empty log
Logged(updated) ==
  errorLog' = [id \in DOMAIN errorLog |->
                 LET i == findProjectIndex(activeProjects, id)
                 IN IF i = 0 THEN <<>>
                    ELSE IF Len(updated[i].errors) > Len(activeProjects[i].errors)
                    THEN errorLog[id] \o RaisedBy(activeProjects[i], updated[i])
                    ELSE errorLog[id]]

\* The history kept of a command.  A rejected command (result "noop")
\* returns prevState itself and leaves no trace; held is the number of jobs
\* in status error an advanceTime found.
Did(op, projectId, result) ==
  IF result = "noop" THEN UNCHANGED <<last, errorLog>>
  ELSE /\ last' = [op |-> op, projectId |-> projectId, result |-> result,
                   held |-> IF op = "advanceTime"
                            THEN Len(SelectSeq(activeProjects,
                                               LAMBDA p : p.status = "error"))
                            ELSE 0]
       /\ IF op = "advanceTime" THEN TRUE ELSE Logged(activeProjects)

\* "done" when the command changed the state, "noop" when it returned it
Effect(s) == IF s = GameState THEN "noop" ELSE "done"

\* The position of the clock: time blocks since the start of day 1
BlocksElapsed == (day - 1) * TIME_BLOCKS_PER_DAY + (TIME_BLOCKS_PER_DAY - timeBlocks)

\* The part of the clock that is explored
ClockExplored ==
  IF csvData = FeedCatalog THEN day <= MaxFeedDay ELSE BlocksElapsed < MaxBlocks

AdvanceTime ==
  /\ ClockExplored
  /\ \E projDraws \in TickDraws(GameState) :
     \E feedRand \in IF timeBlocks - 1 <= 0
                     THEN FeedDraws(tickedState(GameState, projDraws))
                     ELSE {NoRand} :
       /\ SetGameState(advanceTime(GameState, projDraws, feedRand))
       /\ Logged(advanceTimeBlock(GameState, projDraws, feedRand).activeProjects)
       /\ Did("advanceTime", "", IF timeBlocks - 1 <= 0 THEN "newDay" ELSE "sameDay")
  /\ UNCHANGED hostVars

\* The slots tried for a job.  A job that is not in availableProjects is
\* rejected before the slot is read.  The slots are compared for equality
\* only, so of the free slots of the machine the lowest stands for all; the
\* slots in use and the slots beyond the machine are all tried.
GpuIdsFor(projectId) ==
  IF Len(FindById(availableProjects, "Project_ID", projectId)) = 0 THEN {1}
  ELSE LET inUse == {activeProjects[i].assignedGpu : i \in 1..Len(activeProjects)}
           free == (GpuIds \ inUse) \cap (1..availableGpus)
       IN (GpuIds \ free) \cup {g \in free : \A h \in free : g <= h}

AssignProjectToGpu ==
  /\ \E projectId \in ProjectIds :
     \E gpuId \in GpuIdsFor(projectId) :
       LET s == assignProjectToGpu(GameState, projectId, gpuId)
       IN /\ SetGameState(s)
          /\ Did("assignProjectToGpu", projectId, Effect(s))
  /\ UNCHANGED hostVars

PurchaseItem ==
  /\ \E item \in PurchaseInputs :
       LET s == purchaseItem(GameState, item[1], item[2])
       IN /\ SetGameState(s)
          /\ Did("purchaseItem", "", Effect(s))
  /\ UNCHANGED hostVars

\* The draws of a YOLO attempt: resolveYolo is not called, and no draw is
\* made, for a job that is not active
YoloDraws(projectId) ==
  IF findProjectIndex(activeProjects, projectId) = 0 THEN {0} ELSE RandomDraws

\* The draws of an intervention: no draw is made for a job that is not
\* active or a prompt that is not in the catalog
InterventionDraws(projectId, promptId) ==
  IF findProjectIndex(activeProjects, projectId) = 0
     \/ Len(FindById(CsvData.prompts, "Prompt_ID", promptId)) = 0
  THEN {0} ELSE RandomDraws

\* The id of the oldest message in the feed, and an id that is not in it
MessageIds ==
  {activeFeedMessages[k].id : k \in {Len(activeFeedMessages)} \ {0}} \cup {msgSeq + 1}

HandleYoloAttempt ==
  /\ \E projectId \in ProjectIds :
     \E u \in YoloDraws(projectId) :
       LET s == handleYoloAttempt(GameState, projectId, u)
           i == findProjectIndex(activeProjects, projectId)
       IN /\ SetGameState(s)
          /\ Did("handleYoloAttempt", projectId,
                 IF i = 0 \/ s = GameState THEN "noop"
                 ELSE resolveYolo(activeProjects[i], calculateCombinedModifiers(GameState),
                                  u).status)
  /\ UNCHANGED hostVars

\* The prompts tried on a job: every one on an active job; a job that is
\* not active is rejected before the prompt is read
PromptIdsFor(projectId) ==
  IF findProjectIndex(activeProjects, projectId) = 0 THEN {"pr_001"} ELSE PromptIds

HandleInterventionAttempt ==
  /\ InterventionExplored
  /\ \E projectId \in ProjectIds :
     \E promptId \in PromptIdsFor(projectId) :
     \E u \in InterventionDraws(projectId, promptId) :
       LET s == handleInterventionAttempt(GameState, projectId, promptId, u)
           i == findProjectIndex(activeProjects, projectId)
       IN /\ SetGameState(s)
          /\ Did("handleInterventionAttempt", projectId,
                 IF i = 0 THEN "noop"
                 ELSE IF activeProjects[i].status = "error"
                         /\ s.activeProjects[i].status = "running"
                 THEN "succeeded" ELSE "failed")
  /\ UNCHANGED hostVars

\* The action types tried on a message id: every one on a message of the
\* feed; an id that is not in the feed is rejected before the type is read
ActionTypesFor(messageId) ==
  IF messageId > msgSeq THEN {"accept"} ELSE ActionTypes

HandleFeedMessageAction ==
  /\ \E messageId \in MessageIds :
     \E actionType \in ActionTypesFor(messageId) :
       LET s == handleFeedMessageAction(GameState, messageId, actionType)
       IN /\ SetGameState(s)
          /\ Did("handleFeedMessageAction", "",
                 IF s = GameState THEN "noop"
                 ELSE IF s.archivedFeedMessages = archivedFeedMessages THEN "accepted"
                 ELSE "archived")
  /\ UNCHANGED hostVars

Next ==
  \/ AdvanceTime
  \/ AssignProjectToGpu
  \/ PurchaseItem
  \/ HandleYoloAttempt
  \/ HandleInterventionAttempt
  \/ HandleFeedMessageAction

Spec == Init /\ [][Next]_vars

\* The message feed over several days: play that begins in FeedStartStates
\* and assigns no further job
FeedNext ==
  \/ AdvanceTime
  \/ PurchaseItem
  \/ HandleFeedMessageAction

FeedSpec == FeedInit /\ [][FeedNext]_vars

\* The message feed with the pool catalog
PoolSpec == PoolInit /\ [][FeedNext]_vars

\* Offers over several days: play with the feed catalog that begins on day 1
\* after job p1 was assigned and lost, and accepts and assigns jobs again
OfferInit ==
  StartsIn(FeedCatalog, {s \in FeedStartStates(FeedCatalog) : s.day = 1})

OfferNext ==
  \/ AdvanceTime
  \/ AssignProjectToGpu
  \/ HandleFeedMessageAction

OfferSpec == OfferInit /\ [][OfferNext]_vars

\* ------------------------------------------------------------------------
\* Actions of the host: the game loop, the calls of the views and the
\* application of the updaters
\* ------------------------------------------------------------------------

\* setGameState(updater) for each of given, in order
Give(given) ==
  /\ Len(updates) + Len(given) <= MaxPending
  /\ updates' = updates \o given

\* A step of the hook that gives updaters and applies none
LoopStep(r) ==
  /\ gameLoop' = r.gameLoop
  /\ timers' = r.timers
  /\ Give(r.given)
  /\ SetGameState(GameState)
  /\ UNCHANGED <<loader, tickLog, errorLog, last>>

\* toggleGameLoop, the render and the effect that follow it
ToggleGameLoop ==
  /\ gameLoop.isRunning \/ timers.handed + 2 <= MaxTimers
  /\ LoopStep(runLoopEffect([gameLoop EXCEPT !.isRunning = ~@], timers))

\* changeSpeed(newSpeed) with another speed, the render and the effect
\* that follow it; the same speed causes no render
ChangeSpeed ==
  /\ ~gameLoop.isRunning \/ timers.handed + 2 <= MaxTimers
  /\ \E newSpeed \in DOMAIN SPEEDS \ {gameLoop.speed} :
       LoopStep(runLoopEffect([gameLoop EXCEPT !.speed = newSpeed], timers))

\* The callback of the progress interval
ProgressTimerFires ==
  /\ \E t \in timers.live : t.callback = "progress"
  /\ LET step == (gameLoop.currentStepRef + 1) % PROGRESS_STEPS
     IN LoopStep([gameLoop |-> [gameLoop EXCEPT !.currentStepRef = step],
                  timers |-> timers,
                  given |-> <<setBlockProgressUpdater((100 * step) \div PROGRESS_STEPS)>>])

\* The callback of the block interval
BlockTimerFires ==
  /\ \E t \in timers.live : t.callback = "block"
  /\ tickLog.issued + 1 <= MaxTicks
  /\ gameLoop' = [gameLoop EXCEPT !.currentStepRef = 0]
  /\ Give(<<setBlockProgressUpdater(0)>> \o advanceTimeUpdaters(1))
  /\ tickLog' = [tickLog EXCEPT !.issued = @ + 1]
  /\ SetGameState(GameState)
  /\ UNCHANGED <<loader, timers, errorLog, last>>

\* advanceTime(blocks) called by a view
CallAdvanceTime ==
  /\ \E blocks \in 1..MaxCallBlocks :
       /\ tickLog.issued + blocks <= MaxTicks
       /\ Give(advanceTimeUpdaters(blocks))
       /\ tickLog' = [tickLog EXCEPT !.issued = @ + blocks]
  /\ SetGameState(GameState)
  /\ UNCHANGED <<loader, gameLoop, timers, errorLog, last>>

\* purchaseItem(itemId, itemType) called by a view
CallPurchaseItem ==
  /\ \E item \in {<<"hw_004", "hardware">>} :
       /\ item[1] \notin Range(ownedHardware)
       /\ \A k \in 1..Len(updates) : updates[k].kind # "purchaseItem"
       /\ Give(<<purchaseItemUpdater(item[1], item[2])>>)
  /\ SetGameState(GameState)
  /\ UNCHANGED <<loader, gameLoop, timers, tickLog, errorLog, last>>

\* React applies the updater given first to the current state
ApplyUpdate ==
  /\ Len(updates) > 0
  /\ updates' = Tail(updates)
  /\ LET updater == Head(updates)
     IN CASE updater.kind = "advanceTime" ->
               /\ \E projDraws \in TickDraws(GameState) :
                  \E feedRand \in IF timeBlocks - 1 <= 0
                                  THEN FeedDraws(tickedState(GameState, projDraws))
                                  ELSE {NoRand} :
                    /\ SetGameState(advanceTime(GameState, projDraws, feedRand))
                    /\ Logged(advanceTimeBlock(GameState, projDraws, feedRand).activeProjects)
                    /\ Did("advanceTime", "",
                           IF timeBlocks - 1 <= 0 THEN "newDay" ELSE "sameDay")
               /\ tickLog' = [tickLog EXCEPT !.applied = @ + 1]
          [] updater.kind = "setBlockProgressValue" ->
               /\ SetGameState([GameState EXCEPT !.blockProgress = updater.progress])
               /\ UNCHANGED <<tickLog, errorLog, last>>
          [] updater.kind = "purchaseItem" ->
               LET s == purchaseItem(GameState, updater.itemId, updater.itemType)
               IN /\ SetGameState(s)
                  /\ Did("purchaseItem", "", Effect(s))
                  /\ UNCHANGED tickLog
  /\ UNCHANGED <<loader, gameLoop, timers>>

\* ------------------------------------------------------------------------
\* The load of the catalogs
\* ------------------------------------------------------------------------

\* The files the five sources are fetched from
LoaderFiles == MainCatalog

LoaderInit ==
  /\ csvData = NoData
  /\ loader = loaderMounted
  /\ gameLoop = gameLoopMounted /\ timers = NoTimers
  /\ updates = <<>> /\ tickLog = NoTicks
  /\ last = NoCommand
  /\ errorLog = [id \in CatalogProjectIds(LoaderFiles) |-> <<>>]
  /\ FieldsIn({initialGameState(LoaderFiles)})

\* The promise of one source settles: loadedData[key] = parsed, or the
\* catch that pushes a diagnostic and assigns []
SourceSettles ==
  /\ \E key \in Range(SourceKeys) : \E outcome \in SourceOutcomes :
       /\ loader.fetches[key] = "pending"
       /\ loader' = [loader EXCEPT
                       !.fetches[key] = outcome,
                       !.errors = IF outcome \in Thrown
                                  THEN Append(@, [key |-> key]) ELSE @]
  /\ SetGameState(GameState)
  /\ UNCHANGED <<gameLoop, timers, updates, tickLog, errorLog, last>>

\* After Promise.all: setData, setError when errors were pushed and
\* setLoading(false), then the effect of GameProvider on [csvData, csvLoading]
AllSettled ==
  /\ loader.loading
  /\ \A key \in Range(SourceKeys) : loader.fetches[key] # "pending"
  /\ LET loadedData == loadedDataOf(LoaderFiles, loader.fetches)
     IN /\ csvData' = loadedData
        /\ \E feedRand \in FeedRands(Len(loadedData.messages)) :
             SetFields(csvLoaded(GameState, loadedData, feedRand))
  /\ loader' = [loader EXCEPT !.loading = FALSE,
                              !.error = IF Len(loader.errors) > 0 THEN loader.errors ELSE @]
  /\ UNCHANGED <<gameLoop, timers, updates, tickLog, errorLog, last>>

LoaderNext ==
  \/ SourceSettles
  \/ AllSettled

LoaderSpec == LoaderInit /\ [][LoaderNext]_vars

\* The game loop: its two commands, its two timers and the updaters they give
LoopNext ==
  \/ ToggleGameLoop
  \/ ChangeSpeed
  \/ ProgressTimerFires
  \/ BlockTimerFires
  \/ ApplyUpdate

LoopSpec == Init /\ [][LoopNext]_vars

\* The updater queue: the calls of the views beside the block timer of the
\* game loop
QueueNext ==
  \/ ToggleGameLoop
  \/ BlockTimerFires
  \/ CallAdvanceTime
  \/ CallPurchaseItem
  \/ ApplyUpdate

QueueSpec == Init /\ [][QueueNext]_vars

\* The ticks of jobs that were assigned in the first time block
TickNext ==
  \/ AdvanceTime
  \/ HandleYoloAttempt

TickSpec == TickInit /\ [][TickNext]_vars

\* The error rolls of jobs under the hardware bought
RollNext ==
  \/ PurchaseItem
  \/ AdvanceTime

RollSpec == RollInit /\ [][RollNext]_vars

\* The shop: purchases from a shop catalog
ShopNext == PurchaseItem

ShopSpec == ShopInit /\ [][ShopNext]_vars

\* ------------------------------------------------------------------------
\* Properties
\* ------------------------------------------------------------------------

\* The record of job id in a list of job records: <<>> when there is none
JobOf(projects, id) ==
  LET i == findProjectIndex(projects, id)
  IN IF i = 0 THEN <<>> ELSE <<projects[i]>>

\* The step is an application of command op that was not rejected
Applied(op) == last'.op = op /\ vars' # vars

NoDuplicates(s) == \A i, j \in 1..Len(s) : i # j => s[i] # s[j]

LegalStatusChanges ==
  {<<"running", "error">>, <<"running", "completed">>,
   <<"error", "running">>, <<"error", "failed">>}

\* C1: over every advanceTime, assignProjectToGpu, handleYoloAttempt and
\* handleInterventionAttempt command, on a job of any current status, a
\* change of the job's status is one of running->error, running->completed,
\* error->running, error->failed.  A job a step removes from activeProjects
\* left as completed when its id joined completedProjects, as failed
\* otherwise.
C1_StatusChanges ==
  [][\A i \in 1..Len(activeProjects) :
       LET before == activeProjects[i]
           after == JobOf(activeProjects', before.projectId)
           statusAfter ==
             IF Len(after) > 0 THEN after[1].status
             ELSE IF Len(completedProjects') > Len(completedProjects)
                     /\ before.projectId \in
                          Range(SubSeq(completedProjects', Len(completedProjects) + 1,
                                       Len(completedProjects')))
             THEN "completed"
             ELSE "failed"
       IN statusAfter # before.status
            => <<before.status, statusAfter>> \in LegalStatusChanges]_vars

\* C2: the progress of every active job is in [0,1]; a step never decreases
\* the progress of a job whose status is running; advanceTime leaves the
\* whole record of a job whose status is error unchanged.
C2_Progress ==
  /\ [](\A i \in 1..Len(activeProjects) :
          activeProjects[i].progress >= 0 /\ activeProjects[i].progress <= PUnit)
  /\ [][\A i \in 1..Len(activeProjects) :
          LET before == activeProjects[i]
              after == JobOf(activeProjects', before.projectId)
          IN /\ (before.status = "running" /\ Len(after) > 0)
                  => after[1].progress >= before.progress
             /\ (before.status = "error" /\ Applied("advanceTime"))
                  => after = <<before>>]_vars

\* A tick has passed over a job that was in error while another job ran
C2_Witness ==
  /\ last.op = "advanceTime" /\ last.held >= 1
  /\ \E i, j \in 1..Len(activeProjects) :
       /\ activeProjects[i].status = "error"
       /\ activeProjects[j].status = "running" /\ activeProjects[j].progress > 0

\* C3: an advanceTime in which an error is raised for a job leaves the job
\* active with status error (it is not removed as completed, whatever its
\* progress), and a job the advanceTime completes has reached progress 1
\* with no error raised in that tick.
C3_ErrorBlocksCompletion ==
  [][Applied("advanceTime") =>
       \A i \in 1..Len(activeProjects) :
         LET before == activeProjects[i]
             id == before.projectId
             after == JobOf(activeProjects', id)
             raised == errorLog'[id] # errorLog[id]
             speed == calculateCombinedModifiers(GameState).speedMultiplier
         IN /\ raised => (Len(after) > 0 /\ after[1].status = "error")
            /\ Len(after) = 0 =>
                 /\ ~raised
                 /\ before.progress + (BaselineLcm \div before.baselineTime) * speed
                      >= PUnit]_vars

\* C4: in one run of a job no threshold raises an error twice, and the
\* thresholds of the entries of errors are pairwise distinct.
C4_ThresholdOnce ==
  /\ \A id \in DOMAIN errorLog : NoDuplicates(errorLog[id])
  /\ \A i \in 1..Len(activeProjects) :
       NoDuplicates([k \in 1..Len(activeProjects[i].errors) |->
                       activeProjects[i].errors[k].threshold])

\* A job has had errors raised at two thresholds in one run
C4_Witness == \E id \in DOMAIN errorLog : Len(errorLog[id]) >= 2

\* C5: no two active jobs have the same assignedGpu.
C5_DistinctGpus ==
  \A i, j \in 1..Len(activeProjects) :
    i # j => activeProjects[i].assignedGpu # activeProjects[j].assignedGpu

\* Two jobs are active, the second assigned while the first was in error
C5_Witness ==
  /\ last.op = "assignProjectToGpu"
  /\ \E i, j \in 1..Len(activeProjects) :
       /\ i < j
       /\ activeProjects[i].status = "error"
       /\ activeProjects[j].projectId = last.projectId

\* C6: the assignedGpu of every active job is in 1..availableGpus, and
\* assignProjectToGpu with a slot outside that range returns the state
\* unchanged.
C6_GpuInRange ==
  /\ \A i \in 1..Len(activeProjects) :
       activeProjects[i].assignedGpu >= 1
       /\ activeProjects[i].assignedGpu <= availableGpus
  /\ \A projectId \in ProjectIds, gpuId \in GpuIds :
       (gpuId < 1 \/ gpuId > availableGpus)
         => assignProjectToGpu(GameState, projectId, gpuId) = GameState

\* C7: assignProjectToGpu returns the state unchanged when the slot is in
\* use or the job is not in availableProjects; otherwise it appends a job
\* with progress 0, status running, no errors and the catalog's baseline
\* time, error rate and resolution rate, and removes the job from
\* availableProjects.
C7_Assign ==
  \A projectId \in ProjectIds, gpuId \in GpuIds :
    LET s == assignProjectToGpu(GameState, projectId, gpuId)
        offered == \E k \in 1..Len(availableProjects) :
                      availableProjects[k].Project_ID = projectId
        inUse == \E k \in 1..Len(activeProjects) :
                    activeProjects[k].assignedGpu = gpuId
    IN IF inUse \/ ~offered THEN s = GameState
       ELSE LET job == s.activeProjects[Len(s.activeProjects)]
                catalogJob == FindById(CsvData.projects, "Project_ID", projectId)[1]
            IN /\ Len(s.activeProjects) = Len(activeProjects) + 1
               /\ SubSeq(s.activeProjects, 1, Len(activeProjects)) = activeProjects
               /\ job.projectId = projectId /\ job.assignedGpu = gpuId
               /\ job.progress = 0 /\ job.status = "running" /\ job.errors = <<>>
               /\ job.baselineTime = catalogJob.Baseline_Time
               /\ job.baseErrorRate = catalogJob.Error_Rate
               /\ job.yoloSuccessRate = catalogJob.YOLO_Success
               /\ s.availableProjects =
                    SelectSeq(availableProjects, LAMBDA p : p.Project_ID # projectId)
               /\ [s EXCEPT !.activeProjects = activeProjects,
                            !.availableProjects = availableProjects] = GameState

\* The second job has been assigned: both jobs of the catalog run
C7_Witness ==
  /\ last.op = "assignProjectToGpu" /\ last.result = "done"
  /\ Len(activeProjects) = 2 /\ availableProjects = <<>>

\* C8: advanceTime at timeBlocks = 1 increments day, sets timeBlocks to 8,
\* applies health = max(0, health - 5) and runs one feed generation (at most
\* three messages, each of another template, are put in front of the feed);
\* at timeBlocks > 1 it decrements timeBlocks and leaves day, health and both
\* feed queues unchanged; in both cases every running job gets exactly one
\* progress increment of speedMultiplier / baselineTime.
C8_AdvanceTimeBlock ==
  [][Applied("advanceTime") =>
       LET speed == calculateCombinedModifiers(GameState).speedMultiplier
           added == msgSeq' - msgSeq
           new == SubSeq(activeFeedMessages', 1, added)
       IN /\ IF timeBlocks = 1
             THEN /\ day' = day + 1 /\ timeBlocks' = 8
                  /\ health' = Max(0, health - 5)
                  /\ added >= 0 /\ added <= 3
                  /\ Len(activeFeedMessages') = Len(activeFeedMessages) + added
                  /\ SubSeq(activeFeedMessages', added + 1, Len(activeFeedMessages'))
                       = activeFeedMessages
                  /\ NoDuplicates([k \in 1..added |-> new[k].title])
                  /\ \A k \in 1..added :
                       /\ recentlyShownMessages[new[k].title] # day'
                       /\ recentlyShownMessages'[new[k].title] = day'
                  /\ archivedFeedMessages' = archivedFeedMessages
             ELSE /\ timeBlocks' = timeBlocks - 1
                  /\ UNCHANGED <<day, health, activeFeedMessages, archivedFeedMessages,
                                 msgSeq, recentlyShownMessages>>
          /\ \A i \in 1..Len(activeProjects) :
               LET before == activeProjects[i]
                   after == JobOf(activeProjects', before.projectId)
                   expected == Min(PUnit, before.progress
                                 + (BaselineLcm \div before.baselineTime) * speed)
               IN before.status = "running" =>
                    IF Len(after) > 0 THEN after[1].progress = expected
                    ELSE expected = PUnit]_vars

\* A day has rolled over with a job running and a message in the feed
C8_Witness ==
  /\ last.op = "advanceTime" /\ last.result = "newDay"
  /\ day = 2 /\ timeBlocks = 8
  /\ activeFeedMessages # <<>>
  /\ \E i \in 1..Len(activeProjects) :
       activeProjects[i].status = "running" /\ activeProjects[i].progress > 0

\* C9: from the initial state, with the non-negative costs and rewards of
\* the catalog, day >= 1 and never decreases, 1 <= timeBlocks <= 8,
\* 0 <= health <= 100, credits >= 0 and reputation >= 0.
C9_Ranges ==
  /\ [](/\ day >= 1
        /\ timeBlocks >= 1 /\ timeBlocks <= 8
        /\ health >= 0 /\ health <= 100
        /\ credits >= 0
        /\ reputation >= 0)
  /\ [][day' >= day]_vars

\* Every credit has been spent and a failed YOLO attempt has met the floors
\* of health and reputation
C9_Witness ==
  /\ last.op = "handleYoloAttempt" /\ last.result = "failed"
  /\ credits = 0 /\ health = 0 /\ reputation = 0

\* C10: a handleYoloAttempt that fails (as it always does when the job's
\* effective success rate is 0) removes the job from activeProjects, sets
\* reputation to max(0, reputation - 10) and health to max(0, health - 2),
\* and leaves credits, day, timeBlocks, availableProjects, completedProjects
\* and the active jobs of other ids unchanged.
C10_FailedYolo ==
  [][Applied("handleYoloAttempt") =>
       LET id == last'.projectId
           job == JobOf(activeProjects, id)[1]
           rate == job.yoloSuccessRate
                     * calculateCombinedModifiers(GameState).yoloMultiplier
       IN /\ rate = 0 => last'.result = "failed"
          /\ last'.result = "failed" =>
               /\ JobOf(activeProjects', id) = <<>>
               /\ reputation' = Max(0, reputation - 10)
               /\ health' = Max(0, health - 2)
               /\ UNCHANGED <<credits, day, timeBlocks, availableProjects,
                              completedProjects>>
               /\ activeProjects' =
                    SelectSeq(activeProjects, LAMBDA p : p.projectId # id)]_vars

\* A YOLO attempt on the job of success rate 0 has failed while another job
\* was active
C10_Witness ==
  /\ last.op = "handleYoloAttempt" /\ last.result = "failed"
  /\ last.projectId = "p1"
  /\ Len(activeProjects) >= 1

\* The active jobs in status error that a command names by their id:
\* findIndex gives the first active job of the id
ErrorJobs ==
  {i \in 1..Len(activeProjects) :
     /\ activeProjects[i].status = "error"
     /\ findProjectIndex(activeProjects, activeProjects[i].projectId) = i}

\* The prompts of the catalog
CatalogPrompts == {CsvData.prompts[k].Prompt_ID : k \in 1..Len(CsvData.prompts)}

\* Draw u makes a YOLO attempt on job succeed: Math.random() < effectiveSuccessRate
yoloSucceeds(job, u) ==
  u < job.yoloSuccessRate
        * OrDefault(calculateCombinedModifiers(GameState).yoloMultiplier, MScale)

\* Draw u makes an intervention with catalog prompt promptId succeed:
\* Math.random() < successRate
interventionSucceeds(promptId, u) ==
  u < interventionSuccessRate(FindById(CsvData.prompts, "Prompt_ID", promptId)[1])

\* C11: a YOLO attempt that succeeds on a job in status error sets the job
\* to running, removes exactly the last entry of its errors, and leaves the
\* job's progress and the state's timeBlocks, day, health, reputation and
\* credits as they were.
C11_YoloSuccess ==
  \A i \in ErrorJobs : \A u \in RandomDraws :
    LET job == activeProjects[i]
        s == handleYoloAttempt(GameState, job.projectId, u)
        after == JobOf(s.activeProjects, job.projectId)
    IN yoloSucceeds(job, u) =>
         /\ Len(after) = 1
         /\ after[1].status = "running"
         /\ after[1].errors = DropLast(job.errors)
         /\ after[1].progress = job.progress
         /\ s.timeBlocks = timeBlocks /\ s.day = day /\ s.health = health
         /\ s.reputation = reputation /\ s.credits = credits

\* A job that had made progress and raised an error runs again, without
\* the error, after a YOLO attempt that changed the state
C11_Witness ==
  /\ last.op = "handleYoloAttempt" /\ last.result = "running"
  /\ errorLog[last.projectId] # <<>>
  /\ LET after == JobOf(activeProjects, last.projectId)
     IN Len(after) = 1 /\ after[1].status = "running" /\ after[1].progress > 0
                      /\ after[1].errors = <<>>

\* C12: an intervention that succeeds on a job in status error sets the job
\* to running, removes the last entry of its errors, lowers health by 1
\* (not below 0) and leaves timeBlocks exactly one less than it was, for
\* every value 1..8 of timeBlocks.
C12_InterventionSuccess ==
  \A i \in ErrorJobs : \A promptId \in CatalogPrompts : \A u \in RandomDraws :
    LET job == activeProjects[i]
        s == handleInterventionAttempt(GameState, job.projectId, promptId, u)
        after == JobOf(s.activeProjects, job.projectId)
    IN interventionSucceeds(promptId, u) =>
         /\ Len(after) = 1
         /\ after[1].status = "running"
         /\ after[1].errors = DropLast(job.errors)
         /\ s.health = Max(0, health - 1)
         /\ s.timeBlocks = timeBlocks - 1

\* C13: an intervention with a catalog prompt that fails its draw on a job
\* in status error leaves the job in activeProjects in status error with
\* its progress and errors unchanged, lowers health by 1 (not below 0) and
\* leaves timeBlocks, day, credits and reputation unchanged.
C13_InterventionFailure ==
  \A i \in ErrorJobs : \A promptId \in CatalogPrompts : \A u \in RandomDraws :
    LET job == activeProjects[i]
        s == handleInterventionAttempt(GameState, job.projectId, promptId, u)
        after == JobOf(s.activeProjects, job.projectId)
    IN ~interventionSucceeds(promptId, u) =>
         /\ Len(s.activeProjects) = Len(activeProjects)
         /\ Len(after) = 1
         /\ after[1].status = "error"
         /\ after[1].progress = job.progress
         /\ after[1].errors = job.errors
         /\ s.health = Max(0, health - 1)
         /\ s.timeBlocks = timeBlocks /\ s.day = day
         /\ s.credits = credits /\ s.reputation = reputation

\* A job is still in error, with time blocks left to lose, after an
\* intervention on it failed
C13_Witness ==
  /\ last.op = "handleInterventionAttempt" /\ last.result = "failed"
  /\ timeBlocks > 1
  /\ LET after == JobOf(activeProjects, last.projectId)
     IN Len(after) = 1 /\ after[1].status = "error" /\ after[1].errors # <<>>

\* C14: handleInterventionAttempt with a prompt id that is not in the prompt
\* catalog returns the state it was given, health and timeBlocks included.
C14_UnknownPrompt ==
  \A projectId \in ProjectIds : \A promptId \in PromptIds \ CatalogPrompts :
    \A u \in RandomDraws :
      handleInterventionAttempt(GameState, projectId, promptId, u) = GameState

\* C15: handleInterventionAttempt with a catalog prompt that is not in
\* ownedPrompts leaves the job's status, progress and errors, health and
\* timeBlocks unchanged.
C15_UnownedPrompt ==
  \A i \in 1..Len(activeProjects) :
    \A promptId \in CatalogPrompts \ Range(ownedPrompts) : \A u \in RandomDraws :
      LET job == activeProjects[i]
          s == handleInterventionAttempt(GameState, job.projectId, promptId, u)
          after == JobOf(s.activeProjects, job.projectId)
      IN /\ Len(after) = 1
         /\ after[1].status = job.status
         /\ after[1].progress = job.progress
         /\ after[1].errors = job.errors
         /\ s.health = health
         /\ s.timeBlocks = timeBlocks

\* C16: in every reachable state the feed holds at most MAX_FEED_MESSAGES
\* (5) messages and the archive at most MAX_ARCHIVED_FEED_MESSAGES (25),
\* whatever generation calls and accept, dismiss and archive commands came
\* before.
C16_FeedBounds ==
  /\ Len(activeFeedMessages) <= MAX_FEED_MESSAGES
  /\ Len(archivedFeedMessages) <= MAX_ARCHIVED_FEED_MESSAGES

\* The generation of a new day has filled the feed
C16_Witness ==
  /\ last.op = "advanceTime" /\ last.result = "newDay"
  /\ Len(activeFeedMessages) = MAX_FEED_MESSAGES
  /\ activeFeedMessages[1].id = msgSeq

\* C17: a dismiss or archive command on a message of the feed removes the
\* message from activeFeedMessages and makes it the first element of
\* archivedFeedMessages; the entries archived before follow it in their
\* order, and when the archive already held 25 entries exactly its last
\* (oldest) entry is dropped.
C17_Archive ==
  \A k \in 1..Len(activeFeedMessages) : \A actionType \in {"dismiss", "archive"} :
    LET message == activeFeedMessages[k]
        s == handleFeedMessageAction(GameState, message.id, actionType)
    IN /\ s.activeFeedMessages
            = SubSeq(activeFeedMessages, 1, k - 1)
                \o SubSeq(activeFeedMessages, k + 1, Len(activeFeedMessages))
       /\ Len(s.archivedFeedMessages) >= 1
       /\ s.archivedFeedMessages[1] = message
       /\ Tail(s.archivedFeedMessages)
            = IF Len(archivedFeedMessages) = MAX_ARCHIVED_FEED_MESSAGES
              THEN DropLast(archivedFeedMessages)
              ELSE archivedFeedMessages

\* A message was archived into the full archive, which no longer holds
\* the message archived first
C17_Witness ==
  /\ last.op = "handleFeedMessageAction" /\ last.result = "archived"
  /\ Len(archivedFeedMessages) = MAX_ARCHIVED_FEED_MESSAGES
  /\ \A k \in 1..Len(archivedFeedMessages) : archivedFeedMessages[k].id # 1
  /\ \A k \in 1..Len(activeFeedMessages) : activeFeedMessages[k].id # 1

\* The templates the step instantiated: the titles of the messages it put
\* at the head of the feed
Instantiated ==
  {activeFeedMessages'[k].title : k \in 1..(msgSeq' - msgSeq)}

\* All messages of the feed and of the archive
AllMessages == Range(activeFeedMessages) \cup Range(archivedFeedMessages)

\* C18: a generation on day d that instantiates a template records d for
\* it, and no generation on a day d' with d <= d' < d + 3 instantiates it
\* again; the record changes at no other time, and from day d + 3 on the
\* template can be instantiated again (C18_Witness).
C18_Cooldown ==
  [][\A t \in DOMAIN recentlyShownMessages :
       IF t \in Instantiated
       THEN /\ recentlyShownMessages'[t] = day'
            /\ \/ recentlyShownMessages[t] = 0
               \/ day' >= recentlyShownMessages[t] + MESSAGE_COOLDOWN_DAYS
       ELSE recentlyShownMessages'[t] = recentlyShownMessages[t]]_vars

\* The template of message 1, made when the catalogs loaded on day 1, was
\* instantiated again by the generation of day 1 + MESSAGE_COOLDOWN_DAYS
C18_Witness ==
  /\ last.op = "advanceTime" /\ last.result = "newDay"
  /\ day = 1 + MESSAGE_COOLDOWN_DAYS
  /\ \E first \in AllMessages, again \in Range(activeFeedMessages) :
       /\ first.id = 1 /\ again.id > 1
       /\ again.title = first.title
       /\ recentlyShownMessages[again.title] = day

\* C19: no generation instantiates msg_003 while ownedHardware contains
\* hw_004, msg_010 while ownedAiModels contains ai_004, or msg_006 while
\* health is above 40; with health at 40 or below msg_006 can be
\* instantiated (C19_Witness).
C19_ContextBlocks ==
  [][/\ "msg_003" \in Instantiated => "hw_004" \notin Range(ownedHardware')
     /\ "msg_010" \in Instantiated => "ai_004" \notin Range(ownedAiModels')
     /\ "msg_006" \in Instantiated => health' <= 40]_vars

\* The generation of the day on which health fell to 40 instantiated
\* msg_006, and neither msg_003 nor msg_010 since hw_004 and ai_004 are owned
C19_Witness ==
  /\ last.op = "advanceTime" /\ last.result = "newDay"
  /\ health = 40
  /\ recentlyShownMessages["msg_006"] = day
  /\ "hw_004" \in Range(ownedHardware) /\ "ai_004" \in Range(ownedAiModels)
  /\ recentlyShownMessages["msg_003"] < day /\ recentlyShownMessages["msg_010"] < day
  /\ \E m \in Range(activeFeedMessages) : m.title = "msg_006"

\* C20: accepting a job offer whose job is already in availableProjects
\* returns the state it was given.
C20_DuplicateAccept ==
  \A k \in 1..Len(activeFeedMessages) :
    LET message == activeFeedMessages[k]
    IN (/\ message.action = "Accept Project" /\ message.projectId # NoProject
        /\ \E i \in 1..Len(availableProjects) :
              availableProjects[i].Project_ID = message.projectId)
       => handleFeedMessageAction(GameState, message.id, "accept") = GameState

\* The ids of the jobs in availableProjects, in order
AvailableIds == [k \in 1..Len(availableProjects) |-> availableProjects[k].Project_ID]

\* C21: accepting a message of the feed whose linked job is in the job
\* catalog and not in availableProjects appends that catalog job to
\* availableProjects, once, and removes the message from the feed; and in
\* every state reached by accept and assign commands no job id is twice in
\* availableProjects.
C21_AcceptOffer ==
  /\ NoDuplicates(AvailableIds)
  /\ \A k \in 1..Len(activeFeedMessages) :
       LET message == activeFeedMessages[k]
           projectData == FindById(CsvData.projects, "Project_ID", message.projectId)
           s == handleFeedMessageAction(GameState, message.id, "accept")
       IN (message.projectId # NoProject /\ Len(projectData) > 0
           /\ message.projectId \notin Range(AvailableIds))
          => /\ s.availableProjects = Append(availableProjects, projectData[1])
             /\ s.activeFeedMessages
                  = SelectSeq(activeFeedMessages, LAMBDA m : m.id # message.id)
             /\ Len(s.activeFeedMessages) = Len(activeFeedMessages) - 1

\* Job p1 was assigned, which took it out of availableProjects, and the
\* acceptance of an offer has put it back while it runs
C21_Witness ==
  /\ last.op = "handleFeedMessageAction" /\ last.result = "accepted"
  /\ "p1" \in Range(AvailableIds)
  /\ \E k \in 1..Len(activeProjects) : activeProjects[k].projectId = "p1"

\* The catalog, its id field and the owned collection of an item type
CatalogOf(state, itemType) ==
  CASE itemType = "hardware" -> state.hardware
    [] itemType = "aiModel"  -> state.aiModels
    [] itemType = "prompt"   -> state.prompts
    [] OTHER -> <<>>

IdFieldOf(itemType) ==
  CASE itemType = "hardware" -> "Hardware_ID"
    [] itemType = "aiModel"  -> "Model_ID"
    [] OTHER -> "Prompt_ID"

OwnedOf(state, itemType) ==
  CASE itemType = "hardware" -> state.ownedHardware
    [] itemType = "aiModel"  -> state.ownedAiModels
    [] itemType = "prompt"   -> state.ownedPrompts
    [] OTHER -> <<>>

\* C22: purchaseItem returns the state unchanged when the item id is not in
\* the catalog of the given type, when the item is already owned or when
\* credits are less than its cost; otherwise credits decrease by exactly
\* the cost (0 when the item has no cost), the id is appended to the owned
\* collection of its type and nothing else changes; and no owned collection
\* ever holds an id twice.
C22_Purchase ==
  /\ NoDuplicates(ownedHardware) /\ NoDuplicates(ownedAiModels)
  /\ NoDuplicates(ownedPrompts)
  /\ \A itemId \in ItemIds : \A itemType \in ItemTypes :
       LET s == purchaseItem(GameState, itemId, itemType)
           itemData == FindById(CatalogOf(GameState, itemType), IdFieldOf(itemType), itemId)
           cost == IF itemData[1].Cost = Undefined THEN 0 ELSE itemData[1].Cost
       IN IF \/ Len(itemData) = 0
             \/ itemId \in Range(OwnedOf(GameState, itemType))
             \/ credits < cost
          THEN s = GameState
          ELSE /\ s.credits = credits - cost
               /\ OwnedOf(s, itemType) = Append(OwnedOf(GameState, itemType), itemId)
               /\ \A t \in ItemTypes \ {itemType} : OwnedOf(s, t) = OwnedOf(GameState, t)
               /\ s = [GameState EXCEPT !.credits = s.credits,
                                        !.ownedHardware = s.ownedHardware,
                                        !.ownedAiModels = s.ownedAiModels,
                                        !.ownedPrompts = s.ownedPrompts]

\* The model without a cost was bought for nothing, and after two paid
\* purchases the last hardware item costs more than the credits left
C22_Witness ==
  /\ last.op = "purchaseItem"
  /\ "ai_001" \in Range(ownedAiModels) /\ "ai_002" \in Range(ownedAiModels)
  /\ "hw_002" \in Range(ownedHardware) /\ "hw_003" \notin Range(ownedHardware)
  /\ credits = InitialCredits - 300 - 500

\* C28: for every ownership reached by purchases from a catalog whose
\* attribute values are non-negative, calculateCombinedModifiers returns an
\* errorMultiplier, a speedMultiplier and a yoloMultiplier above 0.
C28_PositiveMultipliers ==
  LET m == calculateCombinedModifiers(GameState)
  IN m.errorMultiplier > 0 /\ m.speedMultiplier > 0 /\ m.yoloMultiplier > 0

\* The numeric attributes of an item type
AttributesOf(itemType) ==
  IF itemType = "hardware" THEN {"Processing_Power", "Memory", "Energy_Efficiency"}
  ELSE {"Accuracy", "Inference_Speed"}

\* Item a is at least as good as item b in every attribute and better in one
Dominates(a, b, itemType) ==
  /\ \A attr \in AttributesOf(itemType) : a[attr] >= b[attr]
  /\ \E attr \in AttributesOf(itemType) : a[attr] > b[attr]

\* owned with id as its element number pos + 1
InsertAt(owned, pos, id) ==
  [k \in 1..(Len(owned) + 1) |->
     IF k <= pos THEN owned[k] ELSE IF k = pos + 1 THEN id ELSE owned[k - 1]]

WithOwned(state, itemType, owned) ==
  IF itemType = "hardware" THEN [state EXCEPT !.ownedHardware = owned]
  ELSE [state EXCEPT !.ownedAiModels = owned]

\* C29: for every ownership reached by purchases, every hardware item (AI
\* model) of the catalog that is not owned and dominates every owned item
\* of its kind, and every place of the ownership order at which it is added:
\* the speedMultiplier of the ownership with the item is not below, and the
\* errorMultiplier not above, those of the ownership without it.
C29_Dominance ==
  \A itemType \in {"hardware", "aiModel"} :
    LET catalog == CatalogOf(GameState, itemType)
        owned == OwnedOf(GameState, itemType)
        ownedItems == OwnedItems(owned, catalog, IdFieldOf(itemType))
        without == calculateCombinedModifiers(GameState)
    IN \A k \in 1..Len(catalog) : \A pos \in 0..Len(owned) :
         LET item == catalog[k]
             id == item[IdFieldOf(itemType)]
             with == calculateCombinedModifiers(
                       WithOwned(GameState, itemType, InsertAt(owned, pos, id)))
         IN (/\ Len(owned) > 0 /\ id \notin Range(owned)
             /\ \A j \in 1..Len(ownedItems) : Dominates(item, ownedItems[j], itemType))
            => /\ with.speedMultiplier >= without.speedMultiplier
               /\ with.errorMultiplier <= without.errorMultiplier

\* The ids of the messages in the feed and of the active jobs
FeedIds == {activeFeedMessages[k].id : k \in 1..Len(activeFeedMessages)}
ActiveIds == {activeProjects[k].projectId : k \in 1..Len(activeProjects)}

\* C23: handleFeedMessageAction with a message id that is not in
\* activeFeedMessages (an id never given, the id of an archived or removed
\* message), and handleYoloAttempt and handleInterventionAttempt with a job
\* id that is not in activeProjects (a job of no catalog, an offered, a
\* completed or a failed job), return the game state unchanged, whatever
\* the action type, the prompt and the draw.
C23_AbsentIds ==
  /\ \A messageId \in (0..(msgSeq + 1)) \ FeedIds : \A actionType \in ActionTypes :
       handleFeedMessageAction(GameState, messageId, actionType) = GameState
  /\ \A projectId \in ProjectIds \ ActiveIds : \A u \in RandomDraws :
       /\ handleYoloAttempt(GameState, projectId, u) = GameState
       /\ \A promptId \in PromptIds :
            handleInterventionAttempt(GameState, projectId, promptId, u) = GameState

\* A job runs while another was completed and is no longer active, and a
\* message was archived and is no longer in the feed
C23_Witness ==
  /\ ActiveIds # {} /\ Len(completedProjects) > 0
  /\ Len(archivedFeedMessages) > 0

\* The sum of a column of the job catalog over a sequence of job ids
RECURSIVE CatalogSum(_, _)
CatalogSum(ids, column) ==
  IF Len(ids) = 0 THEN 0
  ELSE FindById(CsvData.projects, "Project_ID", ids[1])[1][column]
         + CatalogSum(Tail(ids), column)

\* The GPU slots of a sequence of active jobs: a slot identifies its job
SlotsOf(jobs) == [k \in 1..Len(jobs) |-> jobs[k].assignedGpu]

\* C27: in every state the status of every active job is running or error.
\* An advanceTime removes from activeProjects exactly the running jobs whose
\* progress reaches 1, appends their ids to completedProjects in the order
\* of activeProjects, and adds the sum of their catalog rewards to credits
\* and of their reputation rewards to reputation, once.  A handleYoloAttempt
\* that fails removes the job after the penalty on reputation and health and
\* pays nothing.
C27_OnlyLiveJobs ==
  /\ [](\A i \in 1..Len(activeProjects) :
          activeProjects[i].status \in {"running", "error"})
  /\ [][/\ Applied("advanceTime") =>
            LET speed == calculateCombinedModifiers(GameState).speedMultiplier
                IsDone(p) == /\ p.status = "running"
                             /\ p.progress + (BaselineLcm \div p.baselineTime) * speed
                                  >= PUnit
                done == SelectSeq(activeProjects, IsDone)
                ids == [k \in 1..Len(done) |-> done[k].projectId]
            IN /\ SlotsOf(activeProjects')
                    = SlotsOf(SelectSeq(activeProjects, LAMBDA p : ~IsDone(p)))
               /\ completedProjects' = completedProjects \o ids
               /\ credits' = credits + CatalogSum(ids, "Reward")
               /\ reputation' = reputation + CatalogSum(ids, "Reputation_Reward")
        /\ (Applied("handleYoloAttempt") /\ last'.result = "failed") =>
            /\ JobOf(activeProjects', last'.projectId) = <<>>
            /\ Len(activeProjects') < Len(activeProjects)
            /\ reputation' = Max(0, reputation - reputationPenalty)
            /\ health' = Max(0, health - healthPenalty)
            /\ UNCHANGED <<credits, completedProjects>>]_vars

\* A tick has completed a job, which was paid and recorded, while another
\* job stays active
C27_Witness ==
  /\ last.op = "advanceTime"
  /\ completedProjects = <<"p1">> /\ credits = InitialCredits + 100
  /\ reputation = 15
  /\ ActiveIds = {"p2"}

\* The draws of a tick in which no error roll signals an error
NoErrorDraws == [k \in 1..Len(PROJECT_ERROR_THRESHOLDS) |-> RUnit - 1]

\* The active jobs of Baseline_Time 4 for which no error roll has signalled
\* an error since they were assigned, under a speedMultiplier of 1.0
CleanJobs ==
  {i \in 1..Len(activeProjects) :
     /\ activeProjects[i].baselineTime = 4
     /\ errorLog[activeProjects[i].projectId] = <<>>
     /\ calculateCombinedModifiers(GameState).speedMultiplier = MScale}

\* C30: a job of Baseline_Time 4 that was assigned in the first time block
\* and ticks under speedMultiplier 1.0 with no error roll signalling an
\* error has progress exactly 0.25, 0.50, 0.75 after the ticks 1, 2, 3 and
\* is running; the fourth tick brings it to progress exactly 1.00 and status
\* completed, and it is removed as completed.
C30_FourTicks ==
  /\ [](\A i \in CleanJobs :
          /\ BlocksElapsed <= 3
          /\ 4 * activeProjects[i].progress = BlocksElapsed * PUnit
          /\ activeProjects[i].status = "running")
  /\ [][\A i \in CleanJobs :
          LET before == activeProjects[i]
              ticked == updateProjectProgress(before, 1, calculateCombinedModifiers(GameState),
                                              NoErrorDraws)
          IN /\ 4 * ticked.progress = (BlocksElapsed + 1) * PUnit
             /\ ticked.status = IF BlocksElapsed = 3 THEN "completed" ELSE "running"
             /\ (Applied("advanceTime") /\ errorLog'[before.projectId] = <<>>) =>
                  IF BlocksElapsed = 3
                  THEN /\ JobOf(activeProjects', before.projectId) = <<>>
                       /\ \E k \in (Len(completedProjects) + 1)..Len(completedProjects') :
                            completedProjects'[k] = before.projectId
                  ELSE JobOf(activeProjects', before.projectId) = <<ticked>>]_vars

\* Job p1 was completed by the fourth tick without an error
C30_Witness ==
  /\ last.op = "advanceTime" /\ BlocksElapsed = 4
  /\ completedProjects = <<"p1">> /\ errorLog["p1"] = <<>>
  /\ csvData.projects[1].Error_Rate > 0

\* The number of advanceTime updaters in a sequence of updaters
TicksIn(given) == Len(SelectSeq(given, LAMBDA u : u.kind = "advanceTime"))

\* C24: the updaters of the block timer and of the views' commands are
\* applied one at a time, in the order they were given, each to the state
\* the previous one produced, and none is lost: a step either gives updaters
\* behind those pending or applies the first pending one; an advanceTime
\* call of n blocks gives exactly n advanceTime updaters, so that the block
\* advances asked for are those applied plus those pending; every applied
\* advanceTime updater advances the clock by exactly one block, and every
\* applied purchaseItem updater is purchaseItem of the current state.
C24_Serialized ==
  /\ [](/\ tickLog.issued = tickLog.applied + TicksIn(updates)
        /\ BlocksElapsed = tickLog.applied)
  /\ [][LET given == SubSeq(updates', Len(updates) + 1, Len(updates'))
        IN /\ \/ Len(updates) > 0 /\ updates' = Tail(updates)
              \/ /\ Len(updates') >= Len(updates)
                 /\ SubSeq(updates', 1, Len(updates)) = updates
                 /\ GameState' = GameState
                 /\ tickLog'.applied = tickLog.applied
                 /\ tickLog'.issued = tickLog.issued + TicksIn(given)
           /\ (Len(updates) > 0 /\ updates' = Tail(updates)) =>
                LET updater == Head(updates)
                IN /\ tickLog'.issued = tickLog.issued
                   /\ updater.kind = "advanceTime" =>
                        /\ tickLog'.applied = tickLog.applied + 1
                        /\ BlocksElapsed' = BlocksElapsed + 1
                        /\ \E projDraws \in TickDraws(GameState) :
                             GameState' \in
                               {advanceTime(GameState, projDraws, feedRand) :
                                  feedRand \in IF timeBlocks - 1 <= 0
                                               THEN FeedDraws(tickedState(GameState, projDraws))
                                               ELSE {NoRand}}
                   /\ updater.kind = "purchaseItem" =>
                        /\ tickLog'.applied = tickLog.applied
                        /\ GameState' = purchaseItem(GameState, updater.itemId,
                                                     updater.itemType)]_vars

\* Block advances of a call and of the block timer were applied around a
\* purchase, and one more is pending behind the timer's progress reset
C24_Witness ==
  /\ tickLog.applied >= 2 /\ TicksIn(updates) >= 1
  /\ "hw_004" \in Range(ownedHardware)
  /\ gameLoop.isRunning /\ Head(updates).kind = "setBlockProgressValue"

\* The live intervals that run callback
LiveTimers(callback) == {t \in timers.live : t.callback = callback}

C26_PartialLoad ==
  ~loader.loading =>
    \A key \in Range(SourceKeys) :
      LET naming == SelectSeq(loader.error, LAMBDA e : e.key = key)
      IN IF loader.fetches[key] = "parsed"
         THEN csvData[key] = LoaderFiles[key] /\ Len(naming) = 0
         ELSE csvData[key] = <<>> /\ Len(naming) = 1

\* The draws of the rolls of one job's tick, one for each threshold
ThresholdDraws == [1..Len(PROJECT_ERROR_THRESHOLDS) -> RandomDraws]

\* The thresholds the next tick of proj crosses for the first time
CrossedBy(proj, modifiers) ==
  {k \in 1..Len(PROJECT_ERROR_THRESHOLDS) : crossesThreshold(proj, modifiers, k)}

\* The thresholds of crossed that are rolled under draws: those up to the
\* lowest one whose roll signals an error, and all of them when none does
RolledOf(proj, modifiers, crossed, draws) ==
  LET signalled == {k \in crossed : checkErrorProbability(proj, modifiers, draws[k])}
  IN {k \in crossed : \A e \in signalled : k <= e}

\* C31: a tick of a running job checks the thresholds it crosses in
\* ascending order, each with its own roll: it appends at most one entry to
\* errors, the entry is the lowest crossed threshold whose roll signals an
\* error, and the result depends on no roll of a threshold above that one
\* nor of a threshold that is not crossed; each advanceTime raises at most
\* one error per job.
C31_FirstCrossedWins ==
  /\ [](\A i \in 1..Len(activeProjects) : \A draws \in ThresholdDraws :
          LET job == activeProjects[i]
              modifiers == calculateCombinedModifiers(GameState)
              crossed == CrossedBy(job, modifiers)
              signalled == {k \in crossed :
                              checkErrorProbability(job, modifiers, draws[k])}
              rolled == RolledOf(job, modifiers, crossed, draws)
              ticked == updateProjectProgress(job, 1, modifiers, draws)
          IN job.status = "running" =>
               /\ IF signalled = {}
                  THEN ticked.errors = job.errors
                  ELSE \E k \in signalled :
                         /\ \A e \in signalled : k <= e
                         /\ ticked.errors =
                              Append(job.errors,
                                     [type |-> "standard",
                                      threshold |-> PROJECT_ERROR_THRESHOLDS[k]])
               /\ \A other \in ThresholdDraws :
                    (\A k \in rolled : other[k] = draws[k])
                      => updateProjectProgress(job, 1, modifiers, other) = ticked)
  /\ [][Applied("advanceTime") =>
          \A id \in DOMAIN errorLog : Len(errorLog'[id]) <= Len(errorLog[id]) + 1]_vars

\* A tick took a job of Baseline_Time 2 from progress 0 over the thresholds
\* 25 and 50: the roll of 25 passed and the roll of 50 raised the error
C31_Witness ==
  /\ last.op = "advanceTime" /\ BlocksElapsed = 1
  /\ \E i \in 1..Len(activeProjects) :
       /\ activeProjects[i].baselineTime = 2
       /\ 2 * activeProjects[i].progress = PUnit
       /\ activeProjects[i].status = "error"
       /\ activeProjects[i].errors = <<[type |-> "standard", threshold |-> 50]>>

\* C32: for every timeUnits from 1 on given to updateProjectProgress, the
\* progress of the result is min(1, progress + (timeUnits / baselineTime)
\* * speedMultiplier).
C32_AnyBlocksElapsed ==
  \A i \in 1..Len(activeProjects) : \A timeUnits \in 1..MaxTimeUnits :
    \A draws \in ThresholdDraws :
      LET job == activeProjects[i]
          modifiers == calculateCombinedModifiers(GameState)
          speedMultiplier == OrDefault(modifiers.speedMultiplier, MScale)
          baselineTime == OrDefault(job.baselineTime, 1)
      IN updateProjectProgress(job, timeUnits, modifiers, draws).progress
           = Min(PUnit, job.progress
                          + (timeUnits * BaselineLcm * speedMultiplier) \div baselineTime)

\* Draws at every hundredth of [0, 1), and the largest draw
RateDraws == {k * (RUnit \div 100) : k \in 0..99} \cup {RUnit - 1}

\* clamp(baseErrorRate * errorMultiplier, 0, 1) with the errorMultiplier the
\* modifier calculator returns
ClampedRate(job, modifiers) ==
  Max(0, Min(RUnit, job.baseErrorRate * modifiers.errorMultiplier))

\* C33: for every job and every errorMultiplier calculateCombinedModifiers
\* returns (0 included) the error roll signals an error exactly when its draw
\* is below clamp(baseErrorRate * errorMultiplier, 0, 1): a tick raises no
\* error when that rate is 0 and raises one whenever it crosses a threshold
\* when that rate is 1.
C33_ErrorRate ==
  \A i \in 1..Len(activeProjects) :
    LET job == activeProjects[i]
        modifiers == calculateCombinedModifiers(GameState)
        rate == ClampedRate(job, modifiers)
    IN /\ \A u \in RateDraws : checkErrorProbability(job, modifiers, u) <=> u < rate
       /\ job.status = "running" =>
            \A draws \in ThresholdDraws :
              LET ticked == updateProjectProgress(job, 1, modifiers, draws)
              IN /\ rate = 0 => ticked.errors = job.errors
                 /\ (rate = RUnit /\ CrossedBy(job, modifiers) # {})
                      => Len(ticked.errors) = Len(job.errors) + 1

\* The owned ids that are in the catalog, in ownership order
UsableIds(owned, catalog, field) ==
  SelectSeq(owned, LAMBDA id : \E k \in 1..Len(catalog) : catalog[k][field] = id)

\* The value of attr of the catalog item id
AttributeOf(catalog, field, id, attr) == FindById(catalog, field, id)[1][attr]

\* Of the ids whose item has the highest attr, the one that comes first
FirstBest(ids, catalog, field, attr) ==
  LET best == {j \in 1..Len(ids) :
                 \A k \in 1..Len(ids) :
                   AttributeOf(catalog, field, ids[j], attr)
                     >= AttributeOf(catalog, field, ids[k], attr)}
  IN IF Len(ids) = 0 THEN <<>>
     ELSE <<ids[CHOOSE j \in best : \A k \in best : j <= k]>>

\* An id that is in no catalog
AbsentId == "hw_999"

\* The ownerships of a state: its own, and its own with an id of no catalog
\* added at any place
Ownerships(state) ==
  {state}
  \cup {[state EXCEPT !.ownedHardware = InsertAt(@, pos, AbsentId)] :
          pos \in 0..Len(state.ownedHardware)}
  \cup {[state EXCEPT !.ownedAiModels = InsertAt(@, pos, AbsentId)] :
          pos \in 0..Len(state.ownedAiModels)}
  \cup {[state EXCEPT !.ownedHardware = <<AbsentId>>, !.ownedAiModels = <<AbsentId>>]}

\* C34: the multipliers of calculateCombinedModifiers are those of owning
\* only the owned catalog hardware item of the highest Processing_Power and
\* the owned catalog AI model of the highest Accuracy, each the first in
\* ownership order among those that tie for the highest value; owned ids that
\* are in no catalog change nothing, and with no owned catalog item of either
\* kind every multiplier is 1.0.
C34_FirstOfTies ==
  \A state \in Ownerships(GameState) :
    LET hw == FirstBest(UsableIds(state.ownedHardware, state.hardware, "Hardware_ID"),
                        state.hardware, "Hardware_ID", "Processing_Power")
        ai == FirstBest(UsableIds(state.ownedAiModels, state.aiModels, "Model_ID"),
                        state.aiModels, "Model_ID", "Accuracy")
        m == calculateCombinedModifiers(state)
    IN /\ m = calculateCombinedModifiers(
                [state EXCEPT !.ownedHardware = hw, !.ownedAiModels = ai])
       /\ (hw = <<>> /\ ai = <<>>) =>
            /\ m.speedMultiplier = MScale
            /\ m.errorMultiplier = MScale
            /\ m.yoloMultiplier = MScale

\* The ids of the templates that are eligible under the filter draws
EligibleIds(gameState, draws) ==
  {gameState.messageTemplates[k].Message_ID : k \in eligibleTemplates(gameState, draws)}

\* C35: a generation call adds exactly min(3, MAX_FEED_MESSAGES - active
\* count, eligible count) messages, with new ids and each from another
\* eligible template, in front of the messages that were active, which all
\* stay, in their order.
C35_GenerationAdds ==
  \A rand \in FeedDraws(GameState) :
    LET s == generateNewMessages(GameState, rand)
        eligible == EligibleIds(GameState, rand.draws)
        k == Min(Min(3, MAX_FEED_MESSAGES - Len(activeFeedMessages)),
                 Cardinality(eligible))
        new == SubSeq(s.activeFeedMessages, 1, k)
    IN /\ k >= 0
       /\ Len(s.activeFeedMessages) = Len(activeFeedMessages) + k
       /\ SubSeq(s.activeFeedMessages, k + 1, Len(s.activeFeedMessages))
            = activeFeedMessages
       /\ \A i \in 1..k :
            /\ new[i].title \in eligible
            /\ new[i].id > msgSeq
            /\ \A j \in 1..k : i # j => new[i].title # new[j].title

\* The generation of day 4 found four messages in the feed and two or more
\* eligible templates (msg_010, last shown on day 1, passes every test of
\* the filter), and put one new message in front of the four
C35_Witness ==
  /\ last.op = "advanceTime" /\ last.result = "newDay"
  /\ day = 4
  /\ Len(activeFeedMessages) = MAX_FEED_MESSAGES
  /\ activeFeedMessages[1].id = msgSeq
  /\ Cardinality({k \in 1..Len(csvData.messages) :
                    recentlyShownMessages[csvData.messages[k].Message_ID] = day}) = 1
  /\ recentlyShownMessages["msg_010"] = 1
  /\ "ai_004" \notin Range(ownedAiModels)

MessageTypes == {"Social", "Direct", "System"}

\* The types of the templates that are eligible under the filter draws
EligibleTypes(gameState, draws) ==
  {gameState.messageTemplates[k].Type : k \in eligibleTemplates(gameState, draws)}
    \cap MessageTypes

\* C36: when a generation call adds k messages and the eligible templates
\* are of t of the types Social, Direct and System, the new messages are of
\* min(k, t) different types; with k = 3 and t = 3 they are one Social, one
\* Direct and one System message.
C36_TypesCovered ==
  \A rand \in FeedDraws(GameState) :
    LET s == generateNewMessages(GameState, rand)
        k == Len(s.activeFeedMessages) - Len(activeFeedMessages)
        t == Cardinality(EligibleTypes(GameState, rand.draws))
        new == SubSeq(s.activeFeedMessages, 1, k)
        types == {new[i].type : i \in 1..k}
    IN /\ Cardinality(types) = Min(k, t)
       /\ (k = 3 /\ t = 3) =>
            \A ty \in MessageTypes :
              Cardinality({i \in 1..k : new[i].type = ty}) = 1

\* The generation of a new day added three messages: one Social, one Direct
\* and one System message
C36_Witness ==
  /\ last.op = "advanceTime" /\ last.result = "newDay"
  /\ Cardinality({k \in 1..Len(csvData.messages) :
                    recentlyShownMessages[csvData.messages[k].Message_ID] = day}) = 3
  /\ Len(activeFeedMessages) >= 3
  /\ activeFeedMessages[1].id = msgSeq /\ activeFeedMessages[3].id = msgSeq - 2
  /\ {activeFeedMessages[i].type : i \in 1..3} = MessageTypes

\* The sequences without repetition of elements of S
Arrangements(S) ==
  UNION {{f \in [1..n -> S] : \A i, j \in 1..n : i # j => f[i] # f[j]} :
           n \in 0..Cardinality(S)}

\* The states that differ from state at most in the owned hardware and the
\* owned AI models: every arrangement of catalog ids as either ownership
OwnershipVariants(state) ==
  {[state EXCEPT !.ownedHardware = hw, !.ownedAiModels = ai] :
     hw \in Arrangements({state.hardware[k].Hardware_ID : k \in 1..Len(state.hardware)}),
     ai \in Arrangements({state.aiModels[k].Model_ID : k \in 1..Len(state.aiModels)})}

\* Draws at every tenth of the range of Math.random()
OutcomeDraws == {k * (RUnit \div 10) : k \in 0..9} \cup {RUnit - 1}

\* C37: for every job in error, every prompt and every draw, an intervention
\* attempt gives the job the same record (success or failure) in every state
\* that differs from the reached one only in the owned hardware and AI
\* models, and changes nothing else differently.
C37_OwnershipIndependent ==
  \A i \in ErrorJobs : \A promptId \in PromptIds : \A u \in OutcomeDraws :
    LET projectId == activeProjects[i].projectId
        here == handleInterventionAttempt(GameState, projectId, promptId, u)
    IN \A other \in OwnershipVariants(GameState) :
         LET there == handleInterventionAttempt(other, projectId, promptId, u)
         IN /\ there.activeProjects[i].status = here.activeProjects[i].status
            /\ there = [here EXCEPT !.ownedHardware = other.ownedHardware,
                                    !.ownedAiModels = other.ownedAiModels]

\* An intervention attempt succeeded on a job in error while bought hardware
\* was owned that gives other modifiers than the starting hardware
C37_Witness ==
  /\ last.op = "handleInterventionAttempt" /\ last.result = "succeeded"
  /\ Len(ownedHardware) > 1
  /\ calculateCombinedModifiers(GameState)
       # calculateCombinedModifiers([GameState EXCEPT !.ownedHardware = <<"hw_001">>])

\* C38: in every reachable state no job id appears in two entries of
\* activeProjects.
C38_NoJobTwice ==
  \A i, j \in 1..Len(activeProjects) :
    i # j => activeProjects[i].projectId # activeProjects[j].projectId

\* The jobs for which the generation call from gameState to after created
\* an offer message
OfferedBy(gameState, after) ==
  {after.activeFeedMessages[i].projectId :
     i \in 1..(Len(after.activeFeedMessages) - Len(gameState.activeFeedMessages))}
    \ {NoProject}

\* A generation call creates no offer for a job that is active, completed
\* or available
C39_NoOfferOfTaken ==
  \A rand \in FeedDraws(GameState) :
    OfferedBy(GameState, generateNewMessages(GameState, rand))
      \cap (ActiveIds \cup Range(AvailableIds) \cup Range(completedProjects)) = {}

\* C39: a generation call never creates an offer message for a job that is
\* active, completed or available, and no id in completedProjects is also
\* in availableProjects or activeProjects or twice in completedProjects.
C39_NeverAgain ==
  /\ C39_NoOfferOfTaken
  /\ Range(completedProjects) \cap (ActiveIds \cup Range(AvailableIds)) = {}
  /\ \A i, j \in 1..Len(completedProjects) :
       i # j => completedProjects[i] # completedProjects[j]

====
